---- MODULE Spec2Model ----
(***************************************************************************)
(* Process supervision engine (src/core/process_engine.py) and retry       *)
(* orchestration engine (src/core/retry_strategy.py).                      *)
(*                                                                         *)
(* Two programs share this module, under seven specifications:             *)
(*   Spec           AsyncProcessEngine: execute_process callers with and   *)
(*                  without a timeout, the semaphore, the registry and     *)
(*                  ProcessTerminator; the callers pass no monitors        *)
(*   SpecMonitored  the same engine with callers that pass ProcessMonitor  *)
(*                  objects, which they may share, and no timeout: the     *)
(*                  monitors' loop tasks and the events they deliver       *)
(*   SpecRetry      RetryExecutor.execute_with_retry, and                  *)
(*                  execute_with_retry_sync as a function of its inputs    *)
(*   SpecEvents     one ProcessMonitor attached to one process: its        *)
(*                  start_monitoring and stop_monitoring, its three        *)
(*                  loops, its parsers and the delivery of each event to   *)
(*                  each observer                                          *)
(*   SpecObservers  the same monitor, without parsers, with observers that *)
(*                  call add_observer and remove_observer while they       *)
(*                  handle an event                                        *)
(*   SpecControl    the engine with callers of terminate_process and       *)
(*                  get_active_sessions beside those of execute_process    *)
(*   SpecControlFair  SpecControl under the scheduling of the event loop   *)
(* A specification leaves the variables of the other programs unchanged.   *)
(***************************************************************************)
EXTENDS Integers, Sequences, FiniteSets, TLC

(* ------------------------------ bounds -------------------------------- *)
NumCallers == 2
MaxConcurrent == 2
MaxClock == 1
NumMonitors == 1
NumTerminators == 1
MaxAttempts == 3
MaxDelay == 2
MaxTimeout == 2
MaxOpDuration == 1
NumObservers == 2
NumParsers == 2
MaxStdoutLines == 2
MaxStderrLines == 1
EditedRunLines == 1

(* Optional[T]: None is the empty tuple, a present value x is <<x>>.       *)
None == <<>>
Some(x) == <<x>>
Range(s) == {s[i] : i \in DOMAIN s}

VARIABLES
  (* --- AsyncProcessEngine --- *)
  clock,             \* the reading of time.time() in microseconds
  max_concurrent,    \* self.max_concurrent
  request_timeouts,  \* the request.timeout values the callers use
  monitor_lists,     \* the monitors lists the callers pass
  semaphore,         \* free slots of self.semaphore
  process_lock,      \* TRUE while self.process_lock is held across a suspension
  active_processes,  \* self.active_processes: session id -> process (its caller)
  stats,             \* self.stats
  pc,                \* where each execute_process call stands
  session_id,        \* the call's session_id
  timeout,           \* request.timeout of the call
  monitors,          \* the call's monitors list
  mi,                \* index of the for-loop over monitors
  exc,               \* the exception caught by "except Exception as e"
  result,            \* the ProcessResult returned
  deadline_elapsed,  \* request.timeout has elapsed with the process running
  proc,              \* the call's subprocess: "none", "running", "exited"
  returncode,        \* process.returncode
  tpc,               \* where each terminate_gracefully call stands
  ttarget,           \* the process a terminate_gracefully call acts on
  tresult,           \* what terminate_gracefully returned
  sent,              \* the signals a terminate_gracefully call has sent
  is_monitoring,     \* ProcessMonitor.is_monitoring
  monitor_tasks,     \* ProcessMonitor._monitor_tasks (the call that created them)
  tasks,             \* the loop tasks created for call c on monitor m
  completed_events,  \* COMPLETED events emitted for call c on monitor m
  gathered,          \* the tasks a stop_monitoring call is awaiting
  stopped,           \* stop_monitoring has returned and no start_monitoring since
  late_event,        \* an observer received a MonitorEvent while stopped
  term_id,           \* the session_id argument of each terminate_process call
  sessions           \* what the latest get_active_sessions call returned

evars == <<clock, max_concurrent, request_timeouts, monitor_lists, semaphore,
           process_lock, active_processes,
           stats, pc, session_id, timeout, monitors, mi, exc, result,
           deadline_elapsed, proc, returncode, tpc, ttarget,
           tresult, sent, is_monitoring, monitor_tasks,
           tasks, completed_events, gathered, stopped, late_event,
           term_id, sessions>>

cfgv == <<max_concurrent, request_timeouts, monitor_lists>>
callv == <<session_id, timeout, monitors>>
procv == <<proc, returncode>>
termv == <<tpc, ttarget, tresult, sent>>
opsv == <<term_id, sessions>>
deliv == <<stopped, late_event>>
monv == <<is_monitoring, monitor_tasks, tasks, completed_events, gathered,
          deliv>>

VARIABLES
  config,          \* the RetryConfiguration passed to execute_with_retry
  error_checker,   \* TRUE if an error_checker is passed
  abort_checker,   \* TRUE if an abort_checker is passed
  sync,            \* TRUE for a call of execute_with_retry_sync
  now,             \* datetime.now()
  rpc,             \* where the execute_with_retry call stands
  start_time,      \* start_time
  attempts,        \* attempts
  last_error,      \* last_error
  attempt_num,     \* attempt_num
  delay,           \* delay
  retry_result,    \* the RetryExecutionResult returned
  retry_stats,     \* RetryExecutor.stats
  op_outcomes,     \* what each invocation of the operation did
  abort_answers,   \* what each abort_checker call answered
  retry_answers,   \* what each should_retry call returned
  checker_answers  \* what each error_checker call did

retryv == <<config, error_checker, abort_checker, sync, now, rpc, start_time,
            attempts, last_error, attempt_num, delay, retry_result,
            retry_stats, op_outcomes, abort_answers, retry_answers,
            checker_answers>>

rcfgv == <<config, error_checker, abort_checker, sync>>
rhist == <<op_outcomes, abort_answers, retry_answers, checker_answers>>

(* ---------------- ProcessMonitor, one attachment: state ---------------- *)
VARIABLES
  observers,       \* self.observers
  custom_parsers,  \* the custom_parsers given to start_monitoring
  monitoring,      \* self.is_monitoring
  exit_code,       \* process.returncode of the monitored process
  streams,         \* per stream: the lines the process writes, not yet read
  lpc,             \* position of start_monitoring and of each loop task
  line_no,         \* per stream: the lines read so far
  blank_lines,     \* per stream: the lines read whose stripped text is empty
  parser_i,        \* "for parser in custom_parsers": index of the parser
  obs_i,           \* per emitter: "for observer in self.observers": index
  emitted,         \* per emitter: the events given to _notify_observers
  received,        \* per observer and emitter: the events it was called with
  last_raise,      \* the last observer call that raised, if any
  parser_log,      \* the parser calls and what each did
  delivery         \* per emitter, for its latest _notify_observers call:
                   \* self.observers at entry, the observers removed since
                   \* and the observers called, in order

pmv == <<observers, custom_parsers, monitoring, exit_code, streams, lpc,
         line_no, blank_lines, parser_i, obs_i, emitted, received,
         last_raise, parser_log, delivery>>

vars == <<evars, retryv, pmv>>

(* ------------------------- AsyncProcessEngine -------------------------- *)
Callers == 1..NumCallers
(* the callers of terminate_process, numbered after those of               *)
(* execute_process; terminate_gracefully runs for either                   *)
Terminators == (NumCallers + 1)..(NumCallers + NumTerminators)
Agents == Callers \cup Terminators
Ids == 0..MaxClock
Monitors == 1..NumMonitors
Loops == {"out", "err", "st"}

(* request.timeout: absent, zero or positive                               *)
Timeouts == {None, Some(0), Some(1)}
(* "if request.timeout:" is Python truthiness: None and 0 are both false   *)
Truthy(t) == t # None /\ t[1] # 0

(* monitor lists without repetition, in increasing order                   *)
MonitorLists == {s \in UNION {[1..n -> Monitors] : n \in 0..NumMonitors} :
                   \A i, j \in DOMAIN s : i < j => s[i] < s[j]}

NoTasks == [k \in Loops |-> "none"]
NewTasks == [k \in Loops |-> "run"]

_generate_session_id == clock

is_success(r) == r.state = "COMPLETED" /\ r.return_code = Some(0)

EInitFor(agents) ==
  /\ clock = 0
  /\ max_concurrent \in 1..MaxConcurrent
  /\ semaphore = max_concurrent
  /\ process_lock = FALSE
  /\ active_processes = <<>>
  /\ stats = [total_executions |-> 0, successful_executions |-> 0,
              failed_executions |-> 0, active_count |-> 0]
  /\ pc = [c \in Callers |-> "idle"]
  /\ session_id = [c \in Callers |-> 0]
  /\ timeout = [c \in Callers |-> None]
  /\ monitors = [c \in Callers |-> <<>>]
  /\ mi = [c \in Callers |-> 1]
  /\ exc = [c \in Callers |-> None]
  /\ result = [c \in Callers |-> None]
  /\ deadline_elapsed = [c \in Callers |-> FALSE]
  /\ proc = [c \in Callers |-> "none"]
  /\ returncode = [c \in Callers |-> None]
  /\ tpc = [a \in agents |-> "idle"]
  /\ ttarget = [a \in agents |-> 0]
  /\ tresult = [a \in agents |-> None]
  /\ sent = [a \in agents |-> <<>>]
  /\ is_monitoring = [m \in Monitors |-> FALSE]
  /\ monitor_tasks = [m \in Monitors |-> {}]
  /\ tasks = [c \in Callers |-> [m \in Monitors |-> NoTasks]]
  /\ completed_events = [c \in Callers |-> [m \in Monitors |-> 0]]
  /\ gathered = [c \in Callers |-> {}]
  /\ stopped = [m \in Monitors |-> FALSE]
  /\ late_event = [m \in Monitors |-> FALSE]
  /\ term_id = [t \in Terminators |-> None]
  /\ sessions = None

(* AsyncProcessEngine.__init__, no call made yet; only execute_process     *)
(* calls run terminate_gracefully                                          *)
EInit == EInitFor(Callers)

(* time passes; only the reading taken by _generate_session_id matters     *)
Tick ==
  /\ clock < MaxClock
  /\ \E c \in Callers : pc[c] = "idle"
  /\ clock' = clock + 1
  /\ UNCHANGED <<cfgv, semaphore, process_lock, active_processes,
                 stats, pc, callv, mi, exc, result, deadline_elapsed, procv,
                 termv, monv>>
  /\ UNCHANGED <<opsv, retryv, pmv>>

(* execute_process is called: session id, start time, total_executions     *)
Call(c) ==
  /\ pc[c] = "idle"
  /\ \E t \in request_timeouts, ms \in monitor_lists :
       /\ timeout' = [timeout EXCEPT ![c] = t]
       /\ monitors' = [monitors EXCEPT ![c] = ms]
  /\ session_id' = [session_id EXCEPT ![c] = _generate_session_id]
  /\ stats' = [stats EXCEPT !.total_executions = @ + 1]
  /\ pc' = [pc EXCEPT ![c] = "acquire"]
  /\ UNCHANGED <<clock, cfgv, semaphore, process_lock,
                 active_processes, mi, exc, result, deadline_elapsed, procv,
                 termv, monv>>
  /\ UNCHANGED <<opsv, retryv, pmv>>

(* a variant of Acquire that never suspends the caller                     *)
AcquireNoGate(c) ==
  /\ pc[c] = "acquire"
  /\ semaphore' = semaphore - 1
  /\ pc' = [pc EXCEPT ![c] = "spawn"]
  /\ UNCHANGED <<clock, cfgv, process_lock, active_processes, stats,
                 callv, mi, exc, result, deadline_elapsed, procv, termv,
                 monv>>
  /\ UNCHANGED <<opsv, retryv, pmv>>

(* "async with self.semaphore": suspended until a slot is free             *)
Acquire(c) ==
  /\ pc[c] = "acquire"
  /\ semaphore > 0
  /\ semaphore' = semaphore - 1
  /\ pc' = [pc EXCEPT ![c] = "spawn"]
  /\ UNCHANGED <<clock, cfgv, process_lock, active_processes, stats,
                 callv, mi, exc, result, deadline_elapsed, procv, termv,
                 monv>>
  /\ UNCHANGED <<opsv, retryv, pmv>>

(* "except Exception as e": failed_executions += 1, then the monitors are  *)
(* stopped                                                                 *)
EnterExcept(c, e) ==
  /\ exc' = [exc EXCEPT ![c] = Some(e)]
  /\ stats' = [stats EXCEPT !.failed_executions = @ + 1]
  /\ mi' = [mi EXCEPT ![c] = 1]
  /\ pc' = [pc EXCEPT ![c] = "stop_mon"]

(* _start_process: the subprocess is created, or the spawn raises          *)
StartProcess(c) ==
  /\ pc[c] = "spawn"
  /\ \/ /\ proc' = [proc EXCEPT ![c] = "running"]
        /\ pc' = [pc EXCEPT ![c] = "register"]
        /\ UNCHANGED <<exc, stats, mi>>
     \/ /\ EnterExcept(c, "spawn_error")
        /\ UNCHANGED proc
  /\ UNCHANGED <<clock, cfgv, semaphore, process_lock,
                 active_processes, callv, result, deadline_elapsed,
                 returncode, termv, monv>>
  /\ UNCHANGED <<opsv, retryv, pmv>>

(* "async with self.process_lock": register the process                    *)
Register(c) ==
  /\ pc[c] = "register"
  /\ ~process_lock
  /\ active_processes' = (session_id[c] :> c) @@ active_processes
  /\ stats' = [stats EXCEPT !.active_count = @ + 1]
  /\ mi' = [mi EXCEPT ![c] = 1]
  /\ pc' = [pc EXCEPT ![c] = "start_mon"]
  /\ UNCHANGED <<clock, cfgv, semaphore, process_lock, callv, exc,
                 result, deadline_elapsed, procv, termv, monv>>
  /\ UNCHANGED <<opsv, retryv, pmv>>

(* "for monitor in monitors: await monitor.start_monitoring(...)": the     *)
(* flag is set, the three tasks are created and replace _monitor_tasks;    *)
(* after the last monitor the call starts waiting for the process          *)
StartMonitoring(c) ==
  /\ pc[c] = "start_mon"
  /\ IF mi[c] <= Len(monitors[c])
       THEN LET m == monitors[c][mi[c]] IN
            /\ is_monitoring' = [is_monitoring EXCEPT ![m] = TRUE]
            /\ monitor_tasks' = [monitor_tasks EXCEPT ![m] = {c}]
            /\ tasks' = [tasks EXCEPT ![c][m] = NewTasks]
            /\ stopped' = [stopped EXCEPT ![m] = FALSE]
            /\ mi' = [mi EXCEPT ![c] = @ + 1]
            /\ UNCHANGED pc
       ELSE /\ pc' = [pc EXCEPT ![c] = "wait"]
            /\ UNCHANGED <<is_monitoring, monitor_tasks, tasks, stopped, mi>>
  /\ UNCHANGED <<clock, cfgv, semaphore, process_lock,
                 active_processes, stats, callv, exc, result,
                 deadline_elapsed, procv, termv, completed_events,
                 gathered, late_event>>
  /\ UNCHANGED <<opsv, retryv, pmv>>

(* process.wait() returns: the process has exited                          *)
WaitExit(c) ==
  /\ pc[c] = "wait"
  /\ proc[c] = "exited"
  /\ pc' = [pc EXCEPT ![c] = "drain"]
  /\ UNCHANGED <<clock, cfgv, semaphore, process_lock,
                 active_processes, stats, callv, mi, exc, result,
                 deadline_elapsed, procv, termv, monv>>
  /\ UNCHANGED <<opsv, retryv, pmv>>

(* process.wait() raises                                                   *)
WaitRaises(c) ==
  /\ pc[c] = "wait"
  /\ EnterExcept(c, "wait_error")
  /\ UNCHANGED <<clock, cfgv, semaphore, process_lock,
                 active_processes, callv, result, deadline_elapsed, procv,
                 termv, monv>>
  /\ UNCHANGED <<opsv, retryv, pmv>>

(* request.timeout seconds have passed since the wait began and the        *)
(* process is still running.  "if request.timeout:" arms                   *)
(* asyncio.wait_for only for a truthy timeout: then TimeoutError is raised *)
(* and terminate_gracefully is entered; otherwise the call sits in a plain *)
(* "await process.wait()"                                                  *)
DeadlineElapses(c) ==
  /\ pc[c] = "wait"
  /\ timeout[c] # None
  /\ proc[c] = "running"
  /\ ~deadline_elapsed[c]
  /\ deadline_elapsed' = [deadline_elapsed EXCEPT ![c] = TRUE]
  /\ IF Truthy(timeout[c])
       THEN /\ pc' = [pc EXCEPT ![c] = "terminate"]
            /\ tpc' = [tpc EXCEPT ![c] = "entry"]
            /\ ttarget' = [ttarget EXCEPT ![c] = c]
       ELSE UNCHANGED <<pc, tpc, ttarget>>
  /\ UNCHANGED <<clock, cfgv, semaphore, process_lock,
                 active_processes, stats, callv, mi, exc, result, procv,
                 tresult, sent, monv>>
  /\ UNCHANGED <<opsv, retryv, pmv>>

(* ------------------------- ProcessTerminator -------------------------- *)
(* a variant of TermFinish after which a terminate_process call keeps      *)
(* process_lock                                                            *)
TermFinishKeepsLock(a, res) ==
  /\ tresult' = [tresult EXCEPT ![a] = Some(res)]
  /\ tpc' = [tpc EXCEPT ![a] = "done"]
  /\ IF a \in Callers
       THEN /\ pc' = [pc EXCEPT ![a] = "drain"]
            /\ UNCHANGED process_lock
       ELSE UNCHANGED <<pc, process_lock>>

(* terminate_gracefully returns res to its caller: an execute_process      *)
(* call a goes on to read the output, a terminate_process call returns     *)
(* res and leaves "async with self.process_lock"                           *)
TermFinish(a, res) ==
  /\ tresult' = [tresult EXCEPT ![a] = Some(res)]
  /\ tpc' = [tpc EXCEPT ![a] = "done"]
  /\ IF a \in Callers
       THEN /\ pc' = [pc EXCEPT ![a] = "drain"]
            /\ UNCHANGED process_lock
       ELSE /\ process_lock' = FALSE
            /\ UNCHANGED pc

(* a variant of TermEntry without the returncode check                     *)
TermEntryNoCheck(a) ==
  /\ tpc[a] = "entry"
  /\ sent' = [sent EXCEPT ![a] = Append(@, "terminate")]
  /\ tpc' = [tpc EXCEPT ![a] = "term_wait"]
  /\ UNCHANGED <<clock, cfgv, semaphore, process_lock, active_processes,
                 stats, pc, callv, mi, exc, result, deadline_elapsed, procv,
                 ttarget, tresult, monv, opsv, retryv, pmv>>

(* "if process.returncode is not None: return True", else                  *)
(* process.terminate(), which may raise                                    *)
TermEntry(a) ==
  /\ tpc[a] = "entry"
  /\ LET p == ttarget[a] IN
     IF returncode[p] # None
       THEN /\ TermFinish(a, TRUE)
            /\ UNCHANGED sent
       ELSE \/ /\ sent' = [sent EXCEPT ![a] = Append(@, "terminate")]
               /\ tpc' = [tpc EXCEPT ![a] = "term_wait"]
               /\ UNCHANGED <<tresult, pc, process_lock>>
            \/ /\ TermFinish(a, FALSE)
               /\ UNCHANGED sent
  /\ UNCHANGED <<clock, cfgv, semaphore, active_processes,
                 stats, callv, mi, exc, result, deadline_elapsed, proc, returncode,
                 ttarget, monv>>
  /\ UNCHANGED <<opsv, retryv, pmv>>

(* wait_for(process.wait(), timeout_term) returns: "return True"           *)
TermWaitExit(a) ==
  /\ tpc[a] = "term_wait"
  /\ proc[ttarget[a]] = "exited"
  /\ TermFinish(a, TRUE)
  /\ UNCHANGED <<clock, cfgv, semaphore, active_processes,
                 stats, callv, mi, exc, result, deadline_elapsed, procv, ttarget,
                 sent, monv>>
  /\ UNCHANGED <<opsv, retryv, pmv>>

(* a variant of TermWaitTimeout that skips the kill stage                  *)
TermWaitTimeoutSkipsKill(a) ==
  /\ tpc[a] = "term_wait"
  /\ proc[ttarget[a]] = "running"
  /\ tpc' = [tpc EXCEPT ![a] = "oskill"]
  /\ UNCHANGED <<clock, cfgv, semaphore, process_lock,
                 active_processes, stats, pc, callv, mi, exc, result,
                 deadline_elapsed, procv, ttarget, tresult, sent, monv,
                 opsv, retryv, pmv>>

(* wait_for(process.wait(), timeout_term) raises TimeoutError              *)
TermWaitTimeout(a) ==
  /\ tpc[a] = "term_wait"
  /\ proc[ttarget[a]] = "running"
  /\ tpc' = [tpc EXCEPT ![a] = "kill"]
  /\ UNCHANGED <<clock, cfgv, semaphore, process_lock,
                 active_processes, stats, pc, callv, mi, exc, result,
                 deadline_elapsed, procv, ttarget, tresult, sent, monv>>
  /\ UNCHANGED <<opsv, retryv, pmv>>

(* process.kill(): raises ProcessLookupError once the process has exited,  *)
(* may raise otherwise; "except Exception: return False"                   *)
SendKill(a) ==
  /\ tpc[a] = "kill"
  /\ LET p == ttarget[a] IN
     \/ /\ proc[p] = "running"
        /\ sent' = [sent EXCEPT ![a] = Append(@, "kill")]
        /\ tpc' = [tpc EXCEPT ![a] = "kill_wait"]
        /\ UNCHANGED <<tresult, pc, process_lock>>
     \/ /\ TermFinish(a, FALSE)
        /\ UNCHANGED sent
  /\ UNCHANGED <<clock, cfgv, semaphore, active_processes,
                 stats, callv, mi, exc, result, deadline_elapsed, proc, returncode,
                 ttarget, monv>>
  /\ UNCHANGED <<opsv, retryv, pmv>>

(* wait_for(process.wait(), timeout_kill) returns: "return True"           *)
KillWaitExit(a) ==
  /\ tpc[a] = "kill_wait"
  /\ proc[ttarget[a]] = "exited"
  /\ TermFinish(a, TRUE)
  /\ UNCHANGED <<clock, cfgv, semaphore, active_processes,
                 stats, callv, mi, exc, result, deadline_elapsed, procv, ttarget,
                 sent, monv>>
  /\ UNCHANGED <<opsv, retryv, pmv>>

(* wait_for(process.wait(), timeout_kill) raises TimeoutError              *)
KillWaitTimeout(a) ==
  /\ tpc[a] = "kill_wait"
  /\ proc[ttarget[a]] = "running"
  /\ tpc' = [tpc EXCEPT ![a] = "oskill"]
  /\ UNCHANGED <<clock, cfgv, semaphore, process_lock,
                 active_processes, stats, pc, callv, mi, exc, result,
                 deadline_elapsed, procv, ttarget, tresult, sent, monv>>
  /\ UNCHANGED <<opsv, retryv, pmv>>

(* os.kill(pid, SIGKILL) / taskkill: "return True", or it raises and the   *)
(* bare except returns False; no wait follows                              *)
OsKill(a) ==
  /\ tpc[a] = "oskill"
  /\ LET p == ttarget[a] IN
     \/ /\ sent' = [sent EXCEPT ![a] = Append(@, "oskill")]
        /\ TermFinish(a, TRUE)
     \/ /\ TermFinish(a, FALSE)
        /\ UNCHANGED sent
  /\ UNCHANGED <<clock, cfgv, semaphore, active_processes,
                 stats, callv, mi, exc, result, deadline_elapsed, proc, returncode,
                 ttarget, monv>>
  /\ UNCHANGED <<opsv, retryv, pmv>>

(* ---------------------------- the process ------------------------------ *)
(* exit codes the process may produce, by itself or in response to a       *)
(* signal: 0, and 1 standing for every nonzero code (-15 and -9 included)  *)
ExitCodes == {0, 1}

(* the process exits and asyncio sets process.returncode                   *)
ProcessExit(p) ==
  /\ proc[p] = "running"
  /\ \E code \in ExitCodes :
       returncode' = [returncode EXCEPT ![p] = Some(code)]
  /\ proc' = [proc EXCEPT ![p] = "exited"]
  /\ UNCHANGED <<clock, cfgv, semaphore, process_lock,
                 active_processes, stats, pc, callv, mi, exc, result,
                 deadline_elapsed, termv, monv>>
  /\ UNCHANGED <<opsv, retryv, pmv>>

(* ------------------- execute_process, after the wait ------------------- *)
(* "await process.stdout.read()" / "process.stderr.read()" return once the  *)
(* process has closed its pipes, which it may do at any time, or raise     *)
(* into the bare "except: pass"                                            *)
Drain(c) ==
  /\ pc[c] = "drain"
  /\ mi' = [mi EXCEPT ![c] = 1]
  /\ pc' = [pc EXCEPT ![c] = "stop_mon"]
  /\ UNCHANGED <<clock, cfgv, semaphore, process_lock,
                 active_processes, stats, callv, exc, result,
                 deadline_elapsed, procv, termv, monv>>
  /\ UNCHANGED <<opsv, retryv, pmv>>

(* task.cancel() for every task of _monitor_tasks that is not done         *)
CancelTasks(m) ==
  [c \in Callers |->
     IF c \in monitor_tasks[m]
       THEN [tasks[c] EXCEPT ![m] =
               [k \in Loops |-> IF tasks[c][m][k] = "run" THEN "cancel"
                                ELSE tasks[c][m][k]]]
       ELSE tasks[c]]

(* "for monitor in monitors: await monitor.stop_monitoring()", up to the   *)
(* gather: is_monitoring = False, the tasks of _monitor_tasks are          *)
(* cancelled, and they are awaited if there are any; after the last        *)
(* monitor the result is built                                             *)
StopMonitoringBegin(c) ==
  /\ pc[c] = "stop_mon"
  /\ IF mi[c] <= Len(monitors[c])
       THEN LET m == monitors[c][mi[c]] IN
            /\ is_monitoring' = [is_monitoring EXCEPT ![m] = FALSE]
            /\ tasks' = CancelTasks(m)
            /\ IF monitor_tasks[m] # {}
                 THEN /\ gathered' = [gathered EXCEPT ![c] = monitor_tasks[m]]
                      /\ pc' = [pc EXCEPT ![c] = "stop_wait"]
                      /\ UNCHANGED <<mi, stopped>>
                 ELSE /\ mi' = [mi EXCEPT ![c] = @ + 1]
                      /\ stopped' = [stopped EXCEPT ![m] = TRUE]
                      /\ UNCHANGED <<gathered, pc>>
       ELSE /\ pc' = [pc EXCEPT ![c] = "result"]
            /\ UNCHANGED <<is_monitoring, tasks, gathered, mi, stopped>>
  /\ UNCHANGED <<clock, cfgv, semaphore, process_lock,
                 active_processes, stats, callv, exc, result,
                 deadline_elapsed, procv, termv, monitor_tasks,
                 completed_events, late_event>>
  /\ UNCHANGED <<opsv, retryv, pmv>>

(* asyncio.gather over self._monitor_tasks returns once every awaited      *)
(* task is done; then "self._monitor_tasks.clear()" empties the list       *)
StopMonitoringEnd(c) ==
  /\ pc[c] = "stop_wait"
  /\ LET m == monitors[c][mi[c]] IN
     /\ \A c2 \in gathered[c], k \in Loops : tasks[c2][m][k] = "done"
     /\ monitor_tasks' = [monitor_tasks EXCEPT ![m] = {}]
     /\ stopped' = [stopped EXCEPT ![m] = TRUE]
  /\ gathered' = [gathered EXCEPT ![c] = {}]
  /\ mi' = [mi EXCEPT ![c] = @ + 1]
  /\ pc' = [pc EXCEPT ![c] = "stop_mon"]
  /\ UNCHANGED <<clock, cfgv, semaphore, process_lock,
                 active_processes, stats, callv, exc, result,
                 deadline_elapsed, procv, termv, is_monitoring, tasks,
                 completed_events, late_event>>
  /\ UNCHANGED <<opsv, retryv, pmv>>

(* a variant of NormalResult whose state is COMPLETED whatever the code    *)
NormalResultCompleted(c) ==
  [state |-> "COMPLETED",
   return_code |-> returncode[c],
   stderr |-> "output",
   metadata_exception |-> None]

(* the ProcessResult of the normal path                                    *)
NormalResult(c) ==
  [state |-> IF returncode[c] = Some(0) THEN "COMPLETED" ELSE "FAILED",
   return_code |-> returncode[c],
   stderr |-> "output",
   metadata_exception |-> None]

(* the ProcessResult of the "except Exception as e" path                   *)
ExceptionResult(c) ==
  [state |-> "FAILED",
   return_code |-> None,
   stderr |-> exc[c][1],
   metadata_exception |-> exc[c]]

(* "state = COMPLETED if process.returncode == 0 else FAILED", the stats   *)
(* of the normal path, and the ProcessResult of either path                *)
BuildResult(c) ==
  /\ pc[c] = "result"
  /\ IF exc[c] = None
       THEN /\ result' = [result EXCEPT ![c] = Some(NormalResult(c))]
            /\ stats' = IF NormalResult(c).state = "COMPLETED"
                          THEN [stats EXCEPT !.successful_executions = @ + 1]
                          ELSE [stats EXCEPT !.failed_executions = @ + 1]
       ELSE /\ result' = [result EXCEPT ![c] = Some(ExceptionResult(c))]
            /\ UNCHANGED stats
  /\ pc' = [pc EXCEPT ![c] = "finally"]
  /\ UNCHANGED <<clock, cfgv, semaphore, process_lock,
                 active_processes, callv, mi, exc, deadline_elapsed, procv,
                 termv, monv>>
  /\ UNCHANGED <<opsv, retryv, pmv>>

(* the registry without the entry of session id i                          *)
Deregistered(i) ==
  [j \in DOMAIN active_processes \ {i} |-> active_processes[j]]

(* the call returns: its request and its local variables are gone; the     *)
(* caller keeps the result, the session id in it and its monitors          *)
ReturnLocals(c) ==
  /\ timeout' = [timeout EXCEPT ![c] = None]
  /\ mi' = [mi EXCEPT ![c] = 1]
  /\ exc' = [exc EXCEPT ![c] = None]
  /\ deadline_elapsed' = [deadline_elapsed EXCEPT ![c] = FALSE]
  /\ tpc' = [tpc EXCEPT ![c] = "idle"]
  /\ ttarget' = [ttarget EXCEPT ![c] = 0]
  /\ tresult' = [tresult EXCEPT ![c] = None]
  /\ sent' = [sent EXCEPT ![c] = <<>>]
  /\ gathered' = [gathered EXCEPT ![c] = {}]

(* a variant of Finally that leaves the registry alone                     *)
FinallyNoDeregister(c) ==
  /\ pc[c] = "finally"
  /\ ~process_lock
  /\ semaphore' = semaphore + 1
  /\ pc' = [pc EXCEPT ![c] = "returned"]
  /\ ReturnLocals(c)
  /\ UNCHANGED <<clock, cfgv, process_lock, active_processes, stats,
                 session_id, monitors, result, procv, is_monitoring,
                 monitor_tasks, tasks, completed_events, deliv>>
  /\ UNCHANGED <<opsv, retryv, pmv>>

(* "finally: async with self.process_lock: if session_id in                *)
(* self.active_processes: del ...; active_count -= 1", then the semaphore  *)
(* is released and the call returns                                        *)
Finally(c) ==
  /\ pc[c] = "finally"
  /\ ~process_lock
  /\ IF session_id[c] \in DOMAIN active_processes
       THEN /\ active_processes' = Deregistered(session_id[c])
            /\ stats' = [stats EXCEPT !.active_count = @ - 1]
       ELSE UNCHANGED <<active_processes, stats>>
  /\ semaphore' = semaphore + 1
  /\ pc' = [pc EXCEPT ![c] = "returned"]
  /\ ReturnLocals(c)
  /\ UNCHANGED <<clock, cfgv, process_lock, session_id, monitors,
                 result, procv, is_monitoring,
                 monitor_tasks, tasks, completed_events, deliv>>
  /\ UNCHANGED <<opsv, retryv, pmv>>

(* -------------------- the monitors' loop tasks ------------------------- *)
(* _monitor_stdout / _monitor_stderr end: readline returned end of stream  *)
(* (the pipes close when the process exits), or a line came and            *)
(* "self.is_monitoring and process.returncode is None" is false            *)
StreamLoopEnds(c, m, k) ==
  /\ k \in {"out", "err"}
  /\ tasks[c][m][k] = "run"
  /\ ~is_monitoring[m] \/ returncode[c] # None
  /\ tasks' = [tasks EXCEPT ![c][m][k] = "done"]
  /\ UNCHANGED <<clock, cfgv, semaphore, process_lock,
                 active_processes, stats, pc, callv, mi, exc, result,
                 deadline_elapsed, procv, termv, is_monitoring,
                 monitor_tasks, completed_events, gathered, deliv>>
  /\ UNCHANGED <<opsv, retryv, pmv>>

(* _monitor_stdout / _monitor_stderr: readline returns a line and the      *)
(* STDOUT_LINE / STDERR_LINE event goes to the observers; the loop         *)
(* condition is read only before the next readline                         *)
StreamLine(c, m, k) ==
  /\ k \in {"out", "err"}
  /\ tasks[c][m][k] = "run"
  /\ late_event' = [late_event EXCEPT ![m] = @ \/ stopped[m]]
  /\ UNCHANGED <<clock, cfgv, semaphore, process_lock,
                 active_processes, stats, pc, callv, mi, exc, result,
                 deadline_elapsed, procv, termv, is_monitoring,
                 monitor_tasks, tasks, completed_events, gathered, stopped>>
  /\ UNCHANGED <<opsv, retryv, pmv>>

(* _monitor_process_state wakes from its sleep with the loop condition     *)
(* false: it emits COMPLETED if process.returncode is set, and ends        *)
StateLoopEnds(c, m) ==
  /\ tasks[c][m]["st"] = "run"
  /\ ~is_monitoring[m] \/ returncode[c] # None
  /\ tasks' = [tasks EXCEPT ![c][m]["st"] = "done"]
  /\ completed_events' =
       [completed_events EXCEPT ![c][m] =
          IF returncode[c] # None THEN @ + 1 ELSE @]
  /\ late_event' =
       [late_event EXCEPT ![m] = @ \/ (stopped[m] /\ returncode[c] # None)]
  /\ UNCHANGED <<clock, cfgv, semaphore, process_lock,
                 active_processes, stats, pc, callv, mi, exc, result,
                 deadline_elapsed, procv, termv, is_monitoring,
                 monitor_tasks, gathered, stopped>>
  /\ UNCHANGED <<opsv, retryv, pmv>>

(* a cancelled task receives CancelledError at its await and ends          *)
TaskCancelled(c, m, k) ==
  /\ tasks[c][m][k] = "cancel"
  /\ tasks' = [tasks EXCEPT ![c][m][k] = "done"]
  /\ UNCHANGED <<clock, cfgv, semaphore, process_lock,
                 active_processes, stats, pc, callv, mi, exc, result,
                 deadline_elapsed, procv, termv, is_monitoring,
                 monitor_tasks, completed_events, gathered, deliv>>
  /\ UNCHANGED <<opsv, retryv, pmv>>

(* ------------- terminate_process and get_active_sessions --------------- *)
(* a variant of terminate_process that, without an entry for i, goes on    *)
(* with the process of some execution                                      *)
terminate_process_any(t, i) ==
  /\ tpc[t] = "idle"
  /\ ~process_lock
  /\ term_id' = [term_id EXCEPT ![t] = Some(i)]
  /\ \E c \in Callers :
       /\ i \in DOMAIN active_processes => c = active_processes[i]
       /\ ttarget' = [ttarget EXCEPT ![t] = c]
  /\ tpc' = [tpc EXCEPT ![t] = "entry"]
  /\ process_lock' = TRUE
  /\ UNCHANGED <<clock, cfgv, semaphore, active_processes, stats, pc, callv,
                 mi, exc, result, deadline_elapsed, procv, tresult, sent,
                 monv, sessions, retryv, pmv>>

(* terminate_process(i): "async with self.process_lock"; without an entry  *)
(* for i it returns False at once; with one it enters                      *)
(* terminate_gracefully for the registered process inside the lock, which  *)
(* is released when that call returns                                      *)
terminate_process(t, i) ==
  /\ tpc[t] = "idle"
  /\ ~process_lock
  /\ term_id' = [term_id EXCEPT ![t] = Some(i)]
  /\ IF i \in DOMAIN active_processes
       THEN /\ ttarget' = [ttarget EXCEPT ![t] = active_processes[i]]
            /\ tpc' = [tpc EXCEPT ![t] = "entry"]
            /\ process_lock' = TRUE
            /\ UNCHANGED tresult
       ELSE /\ tresult' = [tresult EXCEPT ![t] = Some(FALSE)]
            /\ tpc' = [tpc EXCEPT ![t] = "done"]
            /\ UNCHANGED <<ttarget, process_lock>>
  /\ UNCHANGED <<clock, cfgv, semaphore, active_processes, stats, pc, callv,
                 mi, exc, result, deadline_elapsed, procv, sent, monv,
                 sessions>>
  /\ UNCHANGED <<retryv, pmv>>

(* get_active_sessions: "async with self.process_lock: return              *)
(* list(self.active_processes.keys())"                                     *)
get_active_sessions ==
  /\ ~process_lock
  /\ sessions' = Some(DOMAIN active_processes)
  /\ UNCHANGED <<clock, cfgv, semaphore, process_lock, active_processes,
                 stats, pc, callv, mi, exc, result, deadline_elapsed, procv,
                 termv, monv, term_id>>
  /\ UNCHANGED <<retryv, pmv>>

(* RetryExecutor.__init__, and no call made yet                            *)
RetryInit ==
  /\ now = 0
  /\ rpc = "idle"
  /\ start_time = 0
  /\ attempts = <<>>
  /\ last_error = None
  /\ attempt_num = 0
  /\ delay = 0
  /\ retry_result = None
  /\ retry_stats = [total_executions |-> 0, successful_executions |-> 0,
                    failed_executions |-> 0, total_attempts |-> 0,
                    aborted_executions |-> 0]
  /\ op_outcomes = <<>>
  /\ abort_answers = <<>>
  /\ retry_answers = <<>>
  /\ checker_answers = <<>>

(* the retry executor at rest, for the runs of the engine alone            *)
RetryParked ==
  /\ RetryInit
  /\ config = [max_attempts |-> 3, policy |-> "EXPONENTIAL_BACKOFF",
               base_delay |-> 1, max_delay |-> MaxDelay,
               backoff_multiplier |-> 2, jitter_factor |-> 0,
               timeout |-> None, custom_delay_func |-> FALSE]
  /\ error_checker = FALSE
  /\ abort_checker = FALSE
  /\ sync = FALSE

(* the tasks that give events to _notify_observers                         *)
Emitters == {"start", "stdout", "stderr", "state"}
StreamLoops == {"stdout", "stderr"}
Observers == 1..NumObservers

(* ProcessMonitor.__init__ with its observers added, a process spawned,    *)
(* start_monitoring not yet called                                         *)
EventsInit ==
  /\ observers = [i \in 1..NumObservers |-> i]
  /\ monitoring = FALSE
  /\ exit_code = None
  /\ lpc = [k \in Emitters |-> IF k = "start" THEN "init" ELSE "idle"]
  /\ line_no = [k \in StreamLoops |-> 0]
  /\ blank_lines = [k \in StreamLoops |-> {}]
  /\ parser_i = 0
  /\ obs_i = [k \in Emitters |-> 0]
  /\ emitted = [k \in Emitters |-> <<>>]
  /\ received = [o \in Observers |-> [k \in Emitters |-> <<>>]]
  /\ last_raise = None
  /\ parser_log = <<>>
  /\ delivery = [k \in Emitters |->
                  [begin |-> <<>>, removed |-> {}, called |-> <<>>]]

(* the detailed monitor at rest, for the runs of the other programs        *)
EventsParked ==
  /\ EventsInit
  /\ custom_parsers = <<>>
  /\ streams = [k \in StreamLoops |-> 0]

(* the callers pass no monitors                                            *)
Init ==
  /\ EInit
  /\ RetryParked
  /\ EventsParked
  /\ request_timeouts = Timeouts
  /\ monitor_lists = {<<>>}

(* the callers pass monitors, which they may share, and no timeout         *)
InitMonitored ==
  /\ EInit
  /\ RetryParked
  /\ EventsParked
  /\ request_timeouts = {None}
  /\ monitor_lists = MonitorLists

Lifecycle ==
  \/ Tick
  \/ \E c \in Callers : Call(c)
  \/ \E c \in Callers : Acquire(c)
  \/ \E c \in Callers : StartProcess(c)
  \/ \E c \in Callers : Register(c)
  \/ \E c \in Callers : StartMonitoring(c)
  \/ \E c \in Callers : WaitExit(c)
  \/ \E c \in Callers : WaitRaises(c)
  \/ \E p \in Callers : ProcessExit(p)
  \/ \E c \in Callers : Drain(c)
  \/ \E c \in Callers : StopMonitoringBegin(c)
  \/ \E c \in Callers : BuildResult(c)
  \/ \E c \in Callers : Finally(c)

Termination ==
  \/ \E c \in Callers : DeadlineElapses(c)
  \/ \E a \in Callers : TermEntry(a)
  \/ \E a \in Callers : TermWaitExit(a)
  \/ \E a \in Callers : TermWaitTimeout(a)
  \/ \E a \in Callers : SendKill(a)
  \/ \E a \in Callers : KillWaitExit(a)
  \/ \E a \in Callers : KillWaitTimeout(a)
  \/ \E a \in Callers : OsKill(a)

Monitoring ==
  \/ \E c \in Callers : StopMonitoringEnd(c)
  \/ \E c \in Callers, m \in Monitors, k \in {"out", "err"} :
       StreamLine(c, m, k)
  \/ \E c \in Callers, m \in Monitors, k \in {"out", "err"} :
       StreamLoopEnds(c, m, k)
  \/ \E c \in Callers, m \in Monitors : StateLoopEnds(c, m)
  \/ \E c \in Callers, m \in Monitors, k \in Loops : TaskCancelled(c, m, k)

Next == Lifecycle \/ Termination

NextMonitored == Lifecycle \/ Monitoring

Spec == Init /\ [][Next]_vars

SpecMonitored == InitMonitored /\ [][NextMonitored]_vars

(* the engine with callers of terminate_process and get_active_sessions    *)
(* beside those of execute_process, which pass no timeout and no monitors: *)
(* terminate_gracefully runs for the callers of terminate_process only     *)
InitControl ==
  /\ EInitFor(Agents)
  /\ RetryParked
  /\ EventsParked
  /\ request_timeouts = {None}
  /\ monitor_lists = {<<>>}

TerminatorSteps ==
  \/ \E a \in Terminators : TermEntry(a)
  \/ \E a \in Terminators : TermWaitExit(a)
  \/ \E a \in Terminators : TermWaitTimeout(a)
  \/ \E a \in Terminators : SendKill(a)
  \/ \E a \in Terminators : KillWaitExit(a)
  \/ \E a \in Terminators : KillWaitTimeout(a)
  \/ \E a \in Terminators : OsKill(a)

Control ==
  \/ \E t \in Terminators, i \in Ids : terminate_process(t, i)
  \/ get_active_sessions

NextControl == Lifecycle \/ TerminatorSteps \/ Control

SpecControl == InitControl /\ [][NextControl]_vars

(* the steps of one execute_process call that the event loop runs once     *)
(* they can run; a failing wait is not among them                          *)
CallerStep(c) ==
  \/ Acquire(c)
  \/ StartProcess(c)
  \/ Register(c)
  \/ StartMonitoring(c)
  \/ WaitExit(c)
  \/ Drain(c)
  \/ StopMonitoringBegin(c)
  \/ BuildResult(c)
  \/ Finally(c)

(* the steps of one terminate_gracefully call: each wait is bounded by     *)
(* its timeout                                                             *)
TerminatorStep(a) ==
  \/ TermEntry(a)
  \/ TermWaitExit(a)
  \/ TermWaitTimeout(a)
  \/ SendKill(a)
  \/ KillWaitExit(a)
  \/ KillWaitTimeout(a)
  \/ OsKill(a)

(* SpecControl with the scheduling of the asyncio event loop, which runs   *)
(* every coroutine that is ready, and with processes that all exit in the  *)
(* end; nobody has to call execute_process, terminate_process or           *)
(* get_active_sessions                                                     *)
SpecControlFair ==
  /\ SpecControl
  /\ \A c \in Callers : WF_vars(CallerStep(c))
  /\ \A a \in Terminators : WF_vars(TerminatorStep(a))
  /\ \A p \in Callers : WF_vars(ProcessExit(p))

(* ===================== RetryExecutor (retry_strategy.py) =============== *)
(* Times are whole seconds.  The clock of the retry run, now, moves only   *)
(* while the run sleeps and while the operation executes.                  *)

Policies == {"FIXED_DELAY", "EXPONENTIAL_BACKOFF", "LINEAR_BACKOFF",
             "RANDOM_JITTER", "CUSTOM"}

(* base_delay and max_delay as RetryConfiguration.__post_init__ admits     *)
(* them: base_delay >= 0 and max_delay >= base_delay                       *)
DelayPairs == {bm \in (0..MaxDelay) \X (0..MaxDelay) : bm[2] >= bm[1]}

(* the RetryConfiguration objects the runs are given; max_attempts >= 1 is *)
(* enforced by __post_init__; a field a policy does not read is fixed      *)
Configs ==
  {[max_attempts |-> n, policy |-> p, base_delay |-> bm[1],
    max_delay |-> bm[2], backoff_multiplier |-> mu, jitter_factor |-> jf,
    timeout |-> t, custom_delay_func |-> cf] :
     n \in 1..MaxAttempts, p \in Policies, bm \in DelayPairs,
     mu \in {-1, 1, 2}, jf \in {0, 1},
     t \in {None} \cup {Some(x) : x \in 0..MaxTimeout},
     cf \in BOOLEAN}

(* the configurations explored: one representative of the fields that the  *)
(* chosen policy ignores                                                   *)
ExploredConfigs ==
  {c \in Configs :
     /\ \/ c.policy = "EXPONENTIAL_BACKOFF"
        \/ c.policy = "RANDOM_JITTER" /\ c.backoff_multiplier >= 1
        \/ c.backoff_multiplier = 2
     /\ c.policy = "RANDOM_JITTER" \/ c.jitter_factor = 0
     /\ c.policy = "CUSTOM" \/ ~c.custom_delay_func}

RECURSIVE Pow(_, _)
Pow(b, n) == IF n = 0 THEN 1 ELSE b * Pow(b, n - 1)

Min(a, b) == IF a <= b THEN a ELSE b
Max(a, b) == IF a >= b THEN a ELSE b

(* what a custom_delay_func may return: a negative delay, none, or one     *)
(* above max_delay                                                         *)
CustomDelays == {-1, 0, MaxDelay + 1}

(* a variant of calculate_delay whose exponent is attempt_number           *)
calculate_delay_exponent(attempt_number, cfg) ==
  {Max(0, Min(cfg.base_delay * Pow(cfg.backoff_multiplier, attempt_number),
              cfg.max_delay))}

(* DelayCalculator.calculate_delay: the delays it may return for the       *)
(* attempt just failed.  A custom function's value is returned as it is,   *)
(* and base_delay if the function raises; random.random() in [0, 1) makes  *)
(* the jitter range over [-base * jitter_factor, base * jitter_factor)     *)
calculate_delay(attempt_number, cfg) ==
  IF cfg.policy = "CUSTOM" /\ cfg.custom_delay_func
    THEN CustomDelays \cup {cfg.base_delay}
    ELSE LET base == cfg.base_delay
                       * Pow(cfg.backoff_multiplier, attempt_number - 1)
             width == base * cfg.jitter_factor
             delays ==
               CASE cfg.policy = "FIXED_DELAY" -> {cfg.base_delay}
                 [] cfg.policy = "EXPONENTIAL_BACKOFF" -> {base}
                 [] cfg.policy = "LINEAR_BACKOFF" ->
                      {cfg.base_delay * attempt_number}
                 [] cfg.policy = "RANDOM_JITTER" ->
                      {base + j : j \in {x \in (0 - width)..width :
                                           x < width \/ width = 0}}
                 [] OTHER -> {cfg.base_delay}
         IN {Max(0, Min(d, cfg.max_delay)) : d \in delays}

(* the exceptions the operation may raise: class and str(e)                *)
Errors == {[class |-> "Exception", text |-> "e1"],
           [class |-> "Exception", text |-> "e2"],
           [class |-> "MemoryError", text |-> "oom"]}

(* raised classes that "except Exception" does not catch                   *)
BaseExceptions == {"KeyboardInterrupt"}

(* what an error_checker or an abort_checker call may do                   *)
Answers == {"true", "false", "raise"}

(* a variant of should_retry that retries when the error_checker raises    *)
should_retry_on_raise(attempt_number, cfg, error, checker) ==
  IF attempt_number >= cfg.max_attempts THEN FALSE
  ELSE IF checker # None THEN checker[1] \in {"true", "raise"}
  ELSE error.class \notin {"KeyboardInterrupt", "SystemExit", "MemoryError"}

(* RetryConditionChecker.should_retry; checker is None or Some(answer of   *)
(* the error_checker call)                                                 *)
should_retry(attempt_number, cfg, error, checker) ==
  IF attempt_number >= cfg.max_attempts THEN FALSE
  ELSE IF checker # None THEN checker[1] = "true"
  ELSE error.class \notin {"KeyboardInterrupt", "SystemExit", "MemoryError"}

Values == {"v1", "v2"}
OpDurations == 0..MaxOpDuration

(* entry of execute_with_retry up to the for loop                          *)
ExecuteWithRetry ==
  /\ rpc = "idle"
  /\ start_time' = now
  /\ attempts' = <<>>
  /\ last_error' = None
  /\ retry_stats' = [retry_stats EXCEPT !.total_executions = @ + 1]
  /\ attempt_num' = 1
  /\ rpc' = "boundary"
  /\ UNCHANGED <<rcfgv, now, delay, retry_result, rhist, evars, pmv>>

(* a variant of RetryExecutionResult that reports every outcome a success  *)
RetryExecutionResultSuccess(res, value, atts, dur, err) ==
  [result |-> "SUCCESS", value |-> value, attempts |-> atts,
   total_duration |-> dur, final_error |-> err]

RetryExecutionResult(res, value, atts, dur, err) ==
  [result |-> res, value |-> value, attempts |-> atts,
   total_duration |-> dur, final_error |-> err]

(* "return RetryExecutionResult(...)"                                      *)
Return(r) ==
  /\ retry_result' = Some(r)
  /\ rpc' = "done"

(* the outer "except Exception": FAILED_ALL_ATTEMPTS with the attempts     *)
(* recorded so far                                                         *)
UnexpectedError ==
  /\ retry_stats' = [retry_stats EXCEPT !.failed_executions = @ + 1]
  /\ Return(RetryExecutionResult("FAILED_ALL_ATTEMPTS", None, attempts,
                                 now - start_time,
                                 Some("unexpected error")))

(* a variant of RetryAttempt that marks every attempt a success            *)
RetryAttemptAllSuccess(n, st, et, ok, err, d) ==
  [attempt_number |-> n, start_time |-> st, end_time |-> et,
   success |-> TRUE, error |-> err, delay_before |-> d]

(* a variant of RetryAttempt that numbers every attempt 1                  *)
RetryAttemptNumberOne(n, st, et, ok, err, d) ==
  [attempt_number |-> 1, start_time |-> st, end_time |-> et,
   success |-> ok, error |-> err, delay_before |-> d]

(* a RetryAttempt                                                         *)
RetryAttempt(n, st, et, ok, err, d) ==
  [attempt_number |-> n, start_time |-> st, end_time |-> et,
   success |-> ok, error |-> err, delay_before |-> d]

(* a variant of ComputeDelay that computes the delay from the number of    *)
(* the attempt about to start                                              *)
ComputeDelayOfNextAttempt ==
  \E d \in (IF attempt_num > 1 THEN calculate_delay(attempt_num, config)
            ELSE {0}) :
    /\ delay' = d
    /\ rpc' = IF attempt_num > 1 /\ d > 0 THEN "sleep" ELSE "invoke"
    /\ UNCHANGED <<retry_result, retry_stats>>

(* the abort check and the timeout check were passed: the delay before     *)
(* the attempt is computed, none before the first                          *)
ComputeDelay ==
  \E d \in (IF attempt_num > 1 THEN calculate_delay(attempt_num - 1, config)
            ELSE {0}) :
    /\ delay' = d
    /\ rpc' = IF attempt_num > 1 /\ d > 0 THEN "sleep" ELSE "invoke"
    /\ UNCHANGED <<retry_result, retry_stats>>

(* "if config.timeout:" and "elapsed >= config.timeout"                    *)
TimedOut ==
  Truthy(config.timeout) /\ now - start_time >= config.timeout[1]

(* the timeout check and what follows it at the head of the loop body      *)
TimeoutCheck ==
  IF TimedOut
    THEN /\ Return(RetryExecutionResult("TIMEOUT", None, attempts,
                                        now - start_time, Some("timeout")))
         /\ UNCHANGED <<delay, retry_stats>>
    ELSE ComputeDelay

(* a variant of AbortCheck that goes on to the attempt when the checker    *)
(* answers true                                                            *)
AbortCheckIgnored(answer) ==
  CASE answer = "raise" -> UnexpectedError /\ UNCHANGED delay
    [] OTHER -> TimeoutCheck

(* "if abort_checker and abort_checker():" with the checker's answer       *)
AbortCheck(answer) ==
  CASE answer = "true" ->
         /\ retry_stats' = [retry_stats EXCEPT !.aborted_executions = @ + 1]
         /\ Return(RetryExecutionResult("ABORTED", None, attempts,
                                        now - start_time,
                                        Some("execution aborted")))
         /\ UNCHANGED delay
    [] answer = "raise" -> UnexpectedError /\ UNCHANGED delay
    [] OTHER -> TimeoutCheck

(* a variant of the loop head that looks at the timeout before the        *)
(* abort checker's answer                                                  *)
BoundaryTimeoutFirst ==
  /\ rpc = "boundary"
  /\ \E answer \in (IF abort_checker THEN Answers ELSE {"none"}) :
       /\ abort_answers' = IF abort_checker
                             THEN Append(abort_answers, answer)
                             ELSE abort_answers
       /\ IF TimedOut THEN TimeoutCheck ELSE AbortCheck(answer)
  /\ UNCHANGED <<rcfgv, now, start_time, attempts, last_error, attempt_num,
                 op_outcomes, retry_answers, checker_answers, evars, pmv>>

(* the head of the loop body for attempt_num: abort check, timeout check,  *)
(* delay computation; without an abort_checker the abort check is skipped  *)
Boundary ==
  /\ rpc = "boundary"
  /\ \E answer \in (IF abort_checker THEN Answers ELSE {"none"}) :
       /\ abort_answers' = IF abort_checker
                             THEN Append(abort_answers, answer)
                             ELSE abort_answers
       /\ AbortCheck(answer)
  /\ UNCHANGED <<rcfgv, now, start_time, attempts, last_error, attempt_num,
                 op_outcomes, retry_answers, checker_answers, evars, pmv>>

(* "await asyncio.sleep(delay)"                                            *)
Sleep ==
  /\ rpc = "sleep"
  /\ now' = now + delay
  /\ rpc' = "invoke"
  /\ UNCHANGED <<rcfgv, start_time, attempts, last_error, attempt_num,
                 delay, retry_result, retry_stats, rhist, evars, pmv>>

(* the operation is invoked, takes d seconds and returns v                 *)
InvokeSucceeds(v, d) ==
  /\ rpc = "invoke"
  /\ now' = now + d
  /\ op_outcomes' = Append(op_outcomes, [ok |-> TRUE, value |-> v])
  /\ attempts' = Append(attempts,
                        RetryAttempt(attempt_num, now, now', TRUE, None,
                                     delay))
  /\ retry_stats' = [retry_stats EXCEPT !.total_attempts = @ + 1,
                                        !.successful_executions = @ + 1]
  /\ Return(RetryExecutionResult("SUCCESS", Some(v), attempts',
                                 now' - start_time, None))
  /\ UNCHANGED <<rcfgv, start_time, last_error, attempt_num, delay,
                 abort_answers, retry_answers, checker_answers, evars, pmv>>

(* a variant of final_error that never quotes the last error               *)
FinalErrorUnknown(err) == Some("unknown error")

(* "str(last_error) if last_error else ..."; an exception object is truthy *)
FinalError(err) ==
  IF err # None THEN Some(err[1].text) ELSE Some("unknown error")

(* after the loop: every attempt failed or a failure was not retryable     *)
FailedAllAttempts(atts, err, t) ==
  Return(RetryExecutionResult("FAILED_ALL_ATTEMPTS", None, atts,
                              t - start_time, FinalError(err)))

(* a variant of InvokeFails that goes on to the next attempt whatever       *)
(* should_retry returned                                                   *)
InvokeFailsIgnoresStop(e, d, answer) ==
  /\ rpc = "invoke"
  /\ now' = now + d
  /\ op_outcomes' = Append(op_outcomes, [ok |-> FALSE, error |-> e])
  /\ attempts' = Append(attempts,
                        RetryAttempt(attempt_num, now, now', FALSE,
                                     Some(e.text), delay))
  /\ last_error' = Some(e)
  /\ LET checker == IF error_checker THEN Some(answer) ELSE None
         retry == should_retry(attempt_num, config, e, checker)
     IN IF attempt_num < config.max_attempts
          THEN /\ retry_answers' = Append(retry_answers, retry)
               /\ checker_answers' = IF error_checker
                                       THEN Append(checker_answers, answer)
                                       ELSE checker_answers
               /\ IF retry \/ ~retry
                    THEN /\ attempt_num' = attempt_num + 1
                         /\ rpc' = "boundary"
                         /\ retry_stats' =
                              [retry_stats EXCEPT !.total_attempts = @ + 1]
                         /\ UNCHANGED retry_result
                    ELSE /\ retry_stats' =
                              [retry_stats EXCEPT !.total_attempts = @ + 1,
                                                  !.failed_executions = @ + 1]
                         /\ FailedAllAttempts(attempts', last_error', now')
                         /\ UNCHANGED attempt_num
          ELSE /\ retry_stats' =
                    [retry_stats EXCEPT !.total_attempts = @ + 1,
                                        !.failed_executions = @ + 1]
               /\ FailedAllAttempts(attempts', last_error', now')
               /\ UNCHANGED <<attempt_num, retry_answers, checker_answers>>
  /\ UNCHANGED <<rcfgv, start_time, delay, abort_answers, evars, pmv>>

(* the operation is invoked, takes d seconds and raises e; answer is what  *)
(* the error_checker does if should_retry calls it                         *)
InvokeFails(e, d, answer) ==
  /\ rpc = "invoke"
  /\ now' = now + d
  /\ op_outcomes' = Append(op_outcomes, [ok |-> FALSE, error |-> e])
  /\ attempts' = Append(attempts,
                        RetryAttempt(attempt_num, now, now', FALSE,
                                     Some(e.text), delay))
  /\ last_error' = Some(e)
  /\ LET checker == IF error_checker THEN Some(answer) ELSE None
         retry == should_retry(attempt_num, config, e, checker)
     IN IF attempt_num < config.max_attempts
          THEN /\ retry_answers' = Append(retry_answers, retry)
               /\ checker_answers' = IF error_checker
                                       THEN Append(checker_answers, answer)
                                       ELSE checker_answers
               /\ IF retry
                    THEN /\ attempt_num' = attempt_num + 1
                         /\ rpc' = "boundary"
                         /\ retry_stats' =
                              [retry_stats EXCEPT !.total_attempts = @ + 1]
                         /\ UNCHANGED retry_result
                    ELSE /\ retry_stats' =
                              [retry_stats EXCEPT !.total_attempts = @ + 1,
                                                  !.failed_executions = @ + 1]
                         /\ FailedAllAttempts(attempts', last_error', now')
                         /\ UNCHANGED attempt_num
          ELSE /\ retry_stats' =
                    [retry_stats EXCEPT !.total_attempts = @ + 1,
                                        !.failed_executions = @ + 1]
               /\ FailedAllAttempts(attempts', last_error', now')
               /\ UNCHANGED <<attempt_num, retry_answers, checker_answers>>
  /\ UNCHANGED <<rcfgv, start_time, delay, abort_answers, evars, pmv>>

(* the operation raises an exception that is not an Exception: neither     *)
(* "except Exception" catches it and it leaves execute_with_retry          *)
InvokePropagates(b, d) ==
  /\ rpc = "invoke"
  /\ now' = now + d
  /\ op_outcomes' = Append(op_outcomes, [ok |-> FALSE,
                                         error |-> [class |-> b,
                                                    text |-> "interrupt"]])
  /\ retry_stats' = [retry_stats EXCEPT !.total_attempts = @ + 1]
  /\ rpc' = "raised"
  /\ UNCHANGED <<rcfgv, start_time, attempts, last_error, attempt_num,
                 delay, retry_result, abort_answers, retry_answers,
                 checker_answers, evars, pmv>>

(* --------------------- execute_with_retry_sync ------------------------- *)
(* a variant of time_sleep that returns at once                            *)
time_sleep_returns_at_once(t, d) == t

(* "time.sleep(delay)": the caller goes on d seconds later                 *)
time_sleep(t, d) == t + d

(* execute_with_retry_sync after its for loop: FAILED_ALL_ATTEMPTS         *)
sync_failed(atts, last, t, st) ==
  [result |-> RetryExecutionResult("FAILED_ALL_ATTEMPTS", None, atts,
                                   t - start_time, FinalError(last)),
   stats |-> [st EXCEPT !.failed_executions = @ + 1]]

(* the for loop of execute_with_retry_sync from attempt n on, at time t,   *)
(* with the attempts atts recorded, last_error last and the statistics st. *)
(* The function blocks its caller, so it is a function of its inputs: the  *)
(* result and duration of each invocation of the operation, the answer of  *)
(* each error_checker call, the delay drawn before each attempt. They are  *)
(* read from the record of the execute_with_retry run they are compared    *)
(* with; a drawn delay must be one calculate_delay can return              *)
RECURSIVE sync_loop(_, _, _, _, _)
sync_loop(n, t, atts, last, st) ==
  IF n > config.max_attempts THEN sync_failed(atts, last, t, st)
  ELSE IF Truthy(config.timeout) /\ t - start_time >= config.timeout[1]
    THEN [result |-> RetryExecutionResult("TIMEOUT", None, atts,
                                          t - start_time, Some("timeout")),
          stats |-> st]
  ELSE IF n > Len(attempts) \/ n > Len(op_outcomes)
    THEN [result |-> RetryExecutionResult("NO_SUCH_INVOCATION", None, atts,
                                          t - start_time, None),
          stats |-> st]
  ELSE
    LET d == attempts[n].delay_before
        drawn == IF n > 1 THEN calculate_delay(n - 1, config) ELSE {0}
        t1 == IF n > 1 /\ d > 0 THEN time_sleep(t, d) ELSE t
        t2 == t1 + (attempts[n].end_time - attempts[n].start_time)
        o == op_outcomes[n]
        st1 == [st EXCEPT !.total_attempts = @ + 1]
    IN IF d \notin drawn
         THEN [result |-> RetryExecutionResult("NO_SUCH_DELAY", None, atts,
                                               t - start_time, None),
               stats |-> st]
       ELSE IF o.ok
         THEN [result |->
                 RetryExecutionResult(
                   "SUCCESS", Some(o.value),
                   Append(atts, RetryAttempt(n, t1, t2, TRUE, None, d)),
                   t2 - start_time, None),
               stats |-> [st1 EXCEPT !.successful_executions = @ + 1]]
         ELSE
           LET atts1 == Append(atts, RetryAttempt(n, t1, t2, FALSE,
                                                  Some(o.error.text), d))
               checker == IF error_checker /\ n <= Len(checker_answers)
                            THEN Some(checker_answers[n])
                            ELSE None
           IN IF /\ n < config.max_attempts
                 /\ ~should_retry(n, config, o.error, checker)
                THEN sync_failed(atts1, Some(o.error), t2, st1)
                ELSE sync_loop(n + 1, t2, atts1, Some(o.error), st1)

(* execute_with_retry_sync(operation, config, error_checker) on a fresh    *)
(* RetryExecutor: what it returns and the statistics it leaves             *)
execute_with_retry_sync ==
  sync_loop(1, start_time, <<>>, None,
            [total_executions |-> 1, successful_executions |-> 0,
             failed_executions |-> 0, total_attempts |-> 0,
             aborted_executions |-> 0])

(* the engine at rest, for the runs of the retry executor alone            *)
EngineParked ==
  /\ EInit
  /\ max_concurrent = 1
  /\ request_timeouts = {None}
  /\ monitor_lists = {<<>>}

InitRetry ==
  /\ EngineParked
  /\ EventsParked
  /\ RetryInit
  /\ config \in ExploredConfigs
  /\ error_checker \in BOOLEAN
  /\ abort_checker \in BOOLEAN
  /\ sync \in BOOLEAN
  /\ sync => ~abort_checker

NextRetry ==
  \/ ExecuteWithRetry
  \/ Boundary
  \/ Sleep
  \/ \E v \in Values, d \in OpDurations : InvokeSucceeds(v, d)
  \/ \E e \in Errors, d \in OpDurations, answer \in Answers :
       InvokeFails(e, d, answer)
  \/ \E b \in BaseExceptions, d \in OpDurations : InvokePropagates(b, d)

SpecRetry == InitRetry /\ [][NextRetry]_vars

(* ------------------- ProcessMonitor, one attachment -------------------- *)
(* MonitorEvent(event_type, data): the session id and the timestamp are    *)
(* left out; data is the line number for a line event, line number and     *)
(* parser for PROGRESS and ERROR, the return code for COMPLETED            *)
MonitorEvent(event_type, data) == [event_type |-> event_type, data |-> data]

(* a line read from a pipe: line.decode().strip() is empty or not          *)
LineKinds == {"text", "blank"}

(* parser(line_text): truthy data, None or other falsy data, an Exception  *)
ParserOutcomes == {"data", "none", "raise"}

(* observer(event): returns, or raises an Exception                        *)
ObserverOutcomes == {"return", "raise"}

(* "for parser in custom_parsers": the next parser, or back to the while   *)
ParserPc(p) == IF p <= Len(custom_parsers) THEN "parsers" ELSE "head"

(* "while self.is_monitoring and process.returncode is None"               *)
LoopCondition == monitoring /\ exit_code = None

(* _notify_observers(event) is entered by emitter k                        *)
Notify(k, event) ==
  /\ emitted' = [emitted EXCEPT ![k] = Append(@, event)]
  /\ obs_i' = [obs_i EXCEPT ![k] = 1]
  /\ lpc' = [lpc EXCEPT ![k] = "notify"]
  /\ delivery' = [delivery EXCEPT ![k] = [begin |-> observers,
                                          removed |-> {},
                                          called |-> <<>>]]

(* start_monitoring up to the delivery of STARTED                          *)
start_monitoring ==
  /\ lpc["start"] = "init"
  /\ monitoring' = TRUE
  /\ Notify("start", MonitorEvent("STARTED", <<>>))
  /\ UNCHANGED <<observers, custom_parsers, exit_code, streams, line_no,
                 parser_i, received, last_raise, parser_log, blank_lines,
                 evars, retryv>>

(* a variant of CallObserver where an exception ends the delivery          *)
CallObserverAborts(k, outcome) ==
  /\ lpc[k] = "notify"
  /\ obs_i[k] <= Len(observers)
  /\ LET o == observers[obs_i[k]]
         n == Len(emitted[k])
     IN /\ received' = [received EXCEPT ![o][k] = Append(@, emitted[k][n])]
        /\ delivery' = [delivery EXCEPT ![k].called = Append(@, o)]
        /\ IF outcome = "raise"
             THEN /\ last_raise' =
                       Some([observer |-> o, emitter |-> k, n |-> n])
                  /\ obs_i' = [obs_i EXCEPT ![k] = Len(observers) + 1]
             ELSE /\ UNCHANGED last_raise
                  /\ obs_i' = [obs_i EXCEPT ![k] = @ + 1]
  /\ UNCHANGED <<observers, custom_parsers, monitoring, exit_code, streams,
                 lpc, line_no, parser_i, emitted, parser_log, blank_lines,
                 evars, retryv>>

(* _notify_observers: one pass of "for observer in self.observers", the    *)
(* call of the observer inside try / except Exception: pass                *)
CallObserver(k, outcome) ==
  /\ lpc[k] = "notify"
  /\ obs_i[k] <= Len(observers)
  /\ LET o == observers[obs_i[k]]
         n == Len(emitted[k])
     IN /\ received' = [received EXCEPT ![o][k] = Append(@, emitted[k][n])]
        /\ delivery' = [delivery EXCEPT ![k].called = Append(@, o)]
        /\ IF outcome = "raise"
             THEN last_raise' =
                    Some([observer |-> o, emitter |-> k, n |-> n])
             ELSE UNCHANGED last_raise
  /\ obs_i' = [obs_i EXCEPT ![k] = @ + 1]
  /\ UNCHANGED <<observers, custom_parsers, monitoring, exit_code, streams,
                 lpc, line_no, parser_i, emitted, parser_log, blank_lines,
                 evars, retryv>>

(* _notify_observers returns to the emitter: start_monitoring creates the  *)
(* three tasks, the stdout loop goes to the next parser, the stderr loop   *)
(* to its while, the state loop ends                                       *)
NotifyReturns(k) ==
  /\ lpc[k] = "notify"
  /\ obs_i[k] > Len(observers)
  /\ CASE k = "start" ->
            /\ lpc' = [j \in Emitters |->
                         IF j = "start" THEN "done" ELSE "head"]
            /\ UNCHANGED parser_i
       [] k = "stdout" ->
            /\ parser_i' = parser_i + 1
            /\ lpc' = [lpc EXCEPT ![k] = ParserPc(parser_i + 1)]
       [] k = "stderr" ->
            /\ lpc' = [lpc EXCEPT ![k] = "head"]
            /\ UNCHANGED parser_i
       [] k = "state" ->
            /\ lpc' = [lpc EXCEPT ![k] = "ended"]
            /\ UNCHANGED parser_i
  /\ UNCHANGED <<observers, custom_parsers, monitoring, exit_code, streams,
                 line_no, obs_i, emitted, delivery, received, last_raise,
                 parser_log, blank_lines, evars, retryv>>

(* _monitor_stdout / _monitor_stderr: the while condition, readline, the   *)
(* blank-line "continue", the line event                                   *)
ReadLine(k, kind) ==
  /\ lpc[k] = "head"
  /\ IF LoopCondition
       THEN /\ streams[k] > 0
            /\ streams' = [streams EXCEPT ![k] = @ - 1]
            /\ line_no' = [line_no EXCEPT ![k] = @ + 1]
            /\ IF kind = "blank"
                 THEN /\ blank_lines' = [blank_lines EXCEPT ![k] =
                                           @ \cup {line_no[k] + 1}]
                      /\ UNCHANGED <<lpc, emitted, delivery, obs_i, parser_i>>
                 ELSE /\ UNCHANGED blank_lines
                      /\ Notify(k, MonitorEvent(
                                     IF k = "stdout" THEN "STDOUT_LINE"
                                                     ELSE "STDERR_LINE",
                                     <<line_no[k] + 1>>))
                      /\ parser_i' = IF k = "stdout" THEN 0 ELSE parser_i
       ELSE /\ lpc' = [lpc EXCEPT ![k] = "ended"]
            /\ UNCHANGED <<streams, line_no, blank_lines, emitted, delivery,
                           obs_i, parser_i>>
  /\ UNCHANGED <<observers, custom_parsers, monitoring, exit_code, received,
                 last_raise, parser_log, evars, retryv>>

(* readline returns b"" while the process runs: it closed the stream       *)
StreamEof(k) ==
  /\ lpc[k] = "head"
  /\ LoopCondition
  /\ streams[k] = 0
  /\ lpc' = [lpc EXCEPT ![k] = "ended"]
  /\ UNCHANGED <<observers, custom_parsers, monitoring, exit_code, streams,
                 line_no, parser_i, obs_i, emitted, delivery, received,
                 last_raise, parser_log, blank_lines, evars, retryv>>

(* a variant of ApplyParser where an exception skips the parsers left      *)
ApplyParserSkipsRest(outcome) ==
  /\ lpc["stdout"] = "parsers"
  /\ parser_log' = Append(parser_log, [line |-> line_no["stdout"],
                                       parser |-> parser_i,
                                       outcome |-> outcome])
  /\ CASE outcome = "data" ->
            /\ Notify("stdout", MonitorEvent("PROGRESS",
                                   <<line_no["stdout"], parser_i>>))
            /\ UNCHANGED parser_i
       [] outcome = "none" ->
            /\ parser_i' = parser_i + 1
            /\ lpc' = [lpc EXCEPT !["stdout"] = ParserPc(parser_i + 1)]
            /\ UNCHANGED <<emitted, delivery, obs_i>>
       [] outcome = "raise" ->
            /\ Notify("stdout", MonitorEvent("ERROR",
                                   <<line_no["stdout"], parser_i>>))
            /\ parser_i' = Len(custom_parsers)
  /\ UNCHANGED <<observers, custom_parsers, monitoring, exit_code, streams,
                 line_no, received, last_raise, blank_lines, evars, retryv>>

(* a variant of ApplyParser that reports PROGRESS for falsy data too       *)
ApplyParserProgressAlways(outcome) ==
  /\ lpc["stdout"] = "parsers"
  /\ parser_log' = Append(parser_log, [line |-> line_no["stdout"],
                                       parser |-> parser_i,
                                       outcome |-> outcome])
  /\ IF outcome = "raise"
       THEN Notify("stdout", MonitorEvent("ERROR",
                                <<line_no["stdout"], parser_i>>))
       ELSE Notify("stdout", MonitorEvent("PROGRESS",
                                <<line_no["stdout"], parser_i>>))
  /\ UNCHANGED <<observers, custom_parsers, monitoring, exit_code, streams,
                 line_no, blank_lines, parser_i, received, last_raise,
                 evars, retryv>>

(* _monitor_stdout: one pass of "for parser in custom_parsers": PROGRESS   *)
(* for truthy data, nothing for falsy data, ERROR from except Exception    *)
ApplyParser(outcome) ==
  /\ lpc["stdout"] = "parsers"
  /\ parser_log' = Append(parser_log, [line |-> line_no["stdout"],
                                       parser |-> parser_i,
                                       outcome |-> outcome])
  /\ CASE outcome = "data" ->
            /\ Notify("stdout", MonitorEvent("PROGRESS",
                                   <<line_no["stdout"], parser_i>>))
            /\ UNCHANGED parser_i
       [] outcome = "none" ->
            /\ parser_i' = parser_i + 1
            /\ lpc' = [lpc EXCEPT !["stdout"] = ParserPc(parser_i + 1)]
            /\ UNCHANGED <<emitted, delivery, obs_i>>
       [] outcome = "raise" ->
            /\ Notify("stdout", MonitorEvent("ERROR",
                                   <<line_no["stdout"], parser_i>>))
            /\ UNCHANGED parser_i
  /\ UNCHANGED <<observers, custom_parsers, monitoring, exit_code, streams,
                 line_no, received, last_raise, blank_lines, evars, retryv>>

(* a variant of _monitor_process_state without the return code check       *)
_monitor_process_state_unchecked ==
  /\ lpc["state"] = "head"
  /\ ~LoopCondition
  /\ Notify("state", MonitorEvent("COMPLETED", exit_code))
  /\ UNCHANGED <<observers, custom_parsers, monitoring, exit_code, streams,
                 line_no, blank_lines, parser_i, received, last_raise,
                 parser_log, evars, retryv>>

(* _monitor_process_state once its while condition is false: COMPLETED     *)
(* when the return code is set                                             *)
_monitor_process_state ==
  /\ lpc["state"] = "head"
  /\ ~LoopCondition
  /\ IF exit_code # None
       THEN Notify("state", MonitorEvent("COMPLETED", <<exit_code[1]>>))
       ELSE /\ lpc' = [lpc EXCEPT !["state"] = "ended"]
            /\ UNCHANGED <<emitted, delivery, obs_i>>
  /\ UNCHANGED <<observers, custom_parsers, monitoring, exit_code, streams,
                 line_no, parser_i, received, last_raise, parser_log,
                 blank_lines, evars, retryv>>

(* the monitored process exits: process.returncode is set                  *)
MonitoredProcessExits(code) ==
  /\ exit_code = None
  /\ exit_code' = Some(code)
  /\ UNCHANGED <<observers, custom_parsers, monitoring, streams, lpc, line_no,
                 parser_i, obs_i, emitted, delivery, received,
                 last_raise, parser_log, blank_lines, evars, retryv>>

(* stop_monitoring: is_monitoring is cleared and every task of            *)
(* _monitor_tasks that is not done is cancelled; a loop task is suspended  *)
(* in readline, in sleep or in a coroutine observer, and CancelledError    *)
(* ends it there. Called while start_monitoring still delivers STARTED,    *)
(* it finds no task to cancel                                              *)
stop_monitoring ==
  /\ monitoring
  /\ monitoring' = FALSE
  /\ lpc' = [k \in Emitters |->
               IF k # "start" /\ lpc[k] \in {"head", "parsers", "notify"}
                 THEN "cancelled" ELSE lpc[k]]
  /\ UNCHANGED <<observers, custom_parsers, exit_code, streams, line_no,
                 blank_lines, parser_i, obs_i, emitted, delivery,
                 received, last_raise, parser_log, evars, retryv>>

(* one monitor with NumObservers observers attached to one process that    *)
(* writes up to MaxStdoutLines and MaxStderrLines lines                    *)
InitEvents ==
  /\ EngineParked
  /\ RetryParked
  /\ EventsInit
  /\ custom_parsers \in {[i \in 1..n |-> i] : n \in 0..NumParsers}
  /\ streams \in {[k \in StreamLoops |-> IF k = "stdout" THEN a ELSE b] :
                    a \in 0..MaxStdoutLines, b \in 0..MaxStderrLines}

NextEvents ==
  \/ start_monitoring
  \/ \E k \in Emitters, outcome \in ObserverOutcomes : CallObserver(k, outcome)
  \/ \E k \in Emitters : NotifyReturns(k)
  \/ \E k \in StreamLoops, kind \in LineKinds : ReadLine(k, kind)
  \/ \E k \in StreamLoops : StreamEof(k)
  \/ \E outcome \in ParserOutcomes : ApplyParser(outcome)
  \/ _monitor_process_state
  \/ stop_monitoring
  \/ \E code \in ExitCodes : MonitoredProcessExits(code)

SpecEvents == InitEvents /\ [][NextEvents]_vars

(* ------------- observers that edit the list of observers --------------- *)
(* add_observer: "self.observers.append(observer)"                         *)
add_observer(obs, x) == Append(obs, x)

(* remove_observer: "if observer in self.observers:                        *)
(* self.observers.remove(observer)", which removes the first occurrence    *)
remove_observer(obs, x) ==
  IF x \in Range(obs)
    THEN LET i == CHOOSE i \in DOMAIN obs :
                    obs[i] = x /\ \A j \in 1..(i - 1) : obs[j] # x
         IN SubSeq(obs, 1, i - 1) \o SubSeq(obs, i + 1, Len(obs))
    ELSE obs

(* what an observer may do to the monitor while it handles an event: add   *)
(* an observer that is not in the list, remove one that is                 *)
ObserverEdits == {[op |-> o, observer |-> x] :
                    o \in {"add", "remove"}, x \in Observers}

(* one pass of "for observer in self.observers" in which the observer      *)
(* called edits self.observers and returns; the for loop reads the list    *)
(* itself, by position, at its next pass                                   *)
CallObserverEdits(k, edit) ==
  /\ lpc[k] = "notify"
  /\ obs_i[k] <= Len(observers)
  /\ (edit.op = "add") = (edit.observer \notin Range(observers))
  /\ LET o == observers[obs_i[k]]
         n == Len(emitted[k])
         gone == IF edit.op = "remove" THEN {edit.observer} ELSE {}
     IN /\ received' = [received EXCEPT ![o][k] = Append(@, emitted[k][n])]
        /\ observers' = IF edit.op = "add"
                          THEN add_observer(observers, edit.observer)
                          ELSE remove_observer(observers, edit.observer)
        /\ delivery' =
             [j \in Emitters |->
                IF lpc[j] = "notify"
                  THEN [begin |-> delivery[j].begin,
                        removed |-> delivery[j].removed \cup gone,
                        called |-> IF j = k
                                     THEN Append(delivery[j].called, o)
                                     ELSE delivery[j].called]
                  ELSE delivery[j]]
  /\ obs_i' = [obs_i EXCEPT ![k] = @ + 1]
  /\ UNCHANGED <<custom_parsers, monitoring, exit_code, streams, lpc,
                 line_no, parser_i, emitted, last_raise, parser_log,
                 blank_lines, evars, retryv>>

(* one monitor without parsers, attached to one process that writes up to *)
(* EditedRunLines lines to standard output and none to standard error;     *)
(* its observers may edit the list of observers                            *)
InitObservers ==
  /\ EngineParked
  /\ RetryParked
  /\ EventsInit
  /\ custom_parsers = <<>>
  /\ streams \in {[k \in StreamLoops |-> IF k = "stdout" THEN a ELSE 0] :
                    a \in 0..EditedRunLines}

NextObservers ==
  \/ start_monitoring
  \/ \E k \in Emitters, outcome \in ObserverOutcomes : CallObserver(k, outcome)
  \/ \E k \in Emitters, edit \in ObserverEdits : CallObserverEdits(k, edit)
  \/ \E k \in Emitters : NotifyReturns(k)
  \/ \E k \in StreamLoops, kind \in LineKinds : ReadLine(k, kind)
  \/ \E k \in StreamLoops : StreamEof(k)
  \/ _monitor_process_state
  \/ stop_monitoring
  \/ \E code \in ExitCodes : MonitoredProcessExits(code)

SpecObservers == InitObservers /\ [][NextObservers]_vars

(* ------------------------ execute_process: claims ---------------------- *)
(* the calls that hold a slot of the semaphore                             *)
SlotHolders == {c \in Callers : pc[c] \notin {"idle", "acquire", "returned"}}

(* the calls that have spawned a process and have not returned             *)
Spawned == {c \in Callers : proc[c] # "none" /\ pc[c] # "returned"}

(* C1: with max_concurrent = N, at most N calls have spawned a process and *)
(* not yet returned, and the free slots are N minus the calls past the     *)
(* semaphore, so a caller beyond N stays suspended at the semaphore        *)
C1_AtMostNConcurrent ==
  /\ Cardinality(Spawned) <= max_concurrent
  /\ Cardinality(SlotHolders) <= max_concurrent
  /\ semaphore = max_concurrent - Cardinality(SlotHolders)

(* N calls hold a spawned process and another caller is suspended          *)
C1_Witness ==
  /\ Cardinality(Spawned) = max_concurrent
  /\ semaphore = 0
  /\ \E c \in Callers : pc[c] = "acquire"

(* C2: a spawn or wait failure ends in a returned ProcessResult with state *)
(* FAILED, no return code and the exception text in stderr and metadata,   *)
(* and once the call has returned no registry entry holds its process      *)
C2_FailureBecomesResult ==
  \A c \in Callers :
    /\ (pc[c] = "finally" /\ exc[c] # None) =>
         result[c] = Some([state |-> "FAILED", return_code |-> None,
                           stderr |-> exc[c][1],
                           metadata_exception |-> exc[c]])
    /\ pc[c] = "returned" =>
         /\ result[c] # None
         /\ \A i \in DOMAIN active_processes : active_processes[i] # c

(* a call whose process was registered has returned from a wait failure     *)
C2_Witness ==
  \E c \in Callers :
    /\ pc[c] = "returned"
    /\ result[c] = Some([state |-> "FAILED", return_code |-> None,
                         stderr |-> "wait_error",
                         metadata_exception |-> Some("wait_error")])

(* C3: whenever request.timeout has elapsed with the process still         *)
(* running, terminate_gracefully has been called and has returned by the   *)
(* time the ProcessResult is produced                                      *)
C3_TimeoutRunsTerminator ==
  \A c \in Callers :
    (pc[c] = "finally" /\ deadline_elapsed[c]) => tpc[c] = "done"

(* C4: when wait_for has raised TimeoutError for the request's timeout,    *)
(* the ProcessResult is FAILED or TERMINATED and not a success, whatever   *)
(* the exit code                                                           *)
C4_TimeoutNeverCompleted ==
  \A c \in Callers :
    (pc[c] = "finally" /\ deadline_elapsed[c] /\ Truthy(timeout[c])) =>
      /\ result[c][1].state \in {"FAILED", "TERMINATED"}
      /\ ~is_success(result[c][1])

(* C5: once execute_process has returned, the loops started for it on      *)
(* every monitor it was given have finished, no registry entry holds its   *)
(* process and its slot is free again                                      *)
C5_ReturnLeavesNothingRunning ==
  \A c \in Callers :
    pc[c] = "returned" =>
      /\ \A m \in Range(monitors[c]), k \in Loops :
           tasks[c][m][k] \in {"none", "done"}
      /\ \A i \in DOMAIN active_processes : active_processes[i] # c
      /\ semaphore = max_concurrent - Cardinality(SlotHolders)

(* C6: once stop_monitoring has returned, and until the monitor is started *)
(* again, no observer of that monitor receives a MonitorEvent              *)
C6_NoEventAfterStop ==
  \A m \in Monitors : ~late_event[m]

(* ----------------------- execute_with_retry: claims -------------------- *)
Last(q) == q[Len(q)]

(* C7: when the operation fails on its first k-1 invocations with errors   *)
(* that are retried and succeeds on the k-th, the result is SUCCESS with   *)
(* the value the operation produced and exactly k RetryAttempt records, of *)
(* which only the last has success = true                                  *)
C7_FailsThenSucceeds ==
  (rpc = "done" /\ op_outcomes # <<>> /\ Last(op_outcomes).ok) =>
    LET k == Len(op_outcomes)
        r == retry_result[1]
    IN /\ k <= config.max_attempts
       /\ r.result = "SUCCESS"
       /\ r.value = Some(Last(op_outcomes).value)
       /\ Len(r.attempts) = k
       /\ \A i \in 1..k : /\ r.attempts[i].success = (i = k)
                          /\ r.attempts[i].attempt_number = i

(* the spec's case: max_attempts = 3, two failures, then a success         *)
C7_Witness ==
  /\ rpc = "done"
  /\ config.max_attempts = 3
  /\ Len(op_outcomes) = 3
  /\ ~op_outcomes[1].ok /\ ~op_outcomes[2].ok /\ op_outcomes[3].ok
  /\ retry_result[1].result = "SUCCESS"

(* C8: with no overall timeout, an abort checker that never signals and an *)
(* operation whose every failure the retry condition accepts, the result   *)
(* is FAILED_ALL_ATTEMPTS with exactly max_attempts attempts recorded, and *)
(* final_error is the error text of the last attempt                       *)
C8_AlwaysFails ==
  (/\ rpc = "done"
   /\ config.timeout = None
   /\ \A i \in DOMAIN abort_answers : abort_answers[i] = "false"
   /\ \A i \in DOMAIN op_outcomes : ~op_outcomes[i].ok
   /\ \A i \in DOMAIN retry_answers : retry_answers[i]) =>
    LET r == retry_result[1]
        M == config.max_attempts
    IN /\ r.result = "FAILED_ALL_ATTEMPTS"
       /\ Len(r.attempts) = M
       /\ Len(op_outcomes) = M
       /\ r.final_error = Some(op_outcomes[M].error.text)
       /\ r.final_error = r.attempts[M].error

(* three attempts failed, the last two with different texts                *)
C8_Witness ==
  /\ rpc = "done"
  /\ config.timeout = None
  /\ config.max_attempts = 3
  /\ Len(op_outcomes) = 3
  /\ \A i \in 1..3 : ~op_outcomes[i].ok
  /\ retry_answers = <<TRUE, TRUE>>
  /\ op_outcomes[2].error.text # op_outcomes[3].error.text
  /\ retry_result[1].result = "FAILED_ALL_ATTEMPTS"

(* C9: when abort_checker answers true at the boundary before attempt k,   *)
(* the call returns ABORTED with exactly the k-1 failed attempts recorded  *)
(* and the operation is not invoked again, also when the overall timeout   *)
(* has elapsed at that boundary                                            *)
C9_AbortAtBoundary ==
  (abort_answers # <<>> /\ Last(abort_answers) = "true") =>
    LET k == Len(abort_answers)
        r == retry_result[1]
    IN /\ rpc = "done"
       /\ r.result = "ABORTED"
       /\ Len(r.attempts) = k - 1
       /\ Len(op_outcomes) = k - 1
       /\ \A i \in 1..(k - 1) : ~r.attempts[i].success

(* an abort at a boundary where the overall timeout has elapsed as well    *)
C9_Witness ==
  /\ rpc = "done"
  /\ Len(abort_answers) >= 2
  /\ Last(abort_answers) = "true"
  /\ TimedOut
  /\ retry_result[1].result = "ABORTED"

(* C30: abort_checker is called only at the head of the loop body, never  *)
(* in the step that invokes the operation; ABORTED is returned only from   *)
(* there, on a true answer; and every invocation of the operation follows  *)
(* a call of its own that answered false, so that between two calls of     *)
(* the checker the operation is invoked at most once and after a true      *)
(* answer never                                                            *)
C30_AbortOnlyAtBoundaries ==
  [][/\ abort_answers' # abort_answers =>
          /\ rpc = "boundary"
          /\ abort_checker
          /\ Len(abort_answers') = Len(abort_answers) + 1
          /\ op_outcomes' = op_outcomes
          /\ attempts' = attempts
     /\ (rpc # "done" /\ rpc' = "done"
           /\ retry_result'[1].result = "ABORTED") =>
          /\ rpc = "boundary"
          /\ abort_answers' # abort_answers
          /\ Last(abort_answers') = "true"
     /\ op_outcomes' # op_outcomes =>
          /\ rpc = "invoke"
          /\ Len(op_outcomes') = Len(op_outcomes) + 1
          /\ abort_answers' = abort_answers
          /\ abort_checker =>
               /\ Len(abort_answers) = Len(op_outcomes) + 1
               /\ Last(abort_answers) = "false"]_vars

(* the checker answered false, the operation was invoked once and failed,  *)
(* and the next call of the checker answered true before the timeout       *)
C30_Witness ==
  /\ rpc = "done"
  /\ abort_answers = <<"false", "true">>
  /\ Len(op_outcomes) = 1
  /\ Len(attempts) = 1
  /\ ~TimedOut
  /\ retry_result[1].result = "ABORTED"

(* C37: attempt 1 has delay_before 0 and starts when the call starts; for  *)
(* every attempt k > 1, delay_before is a value of calculate_delay(k-1,    *)
(* config) computed with the error of attempt k-1 as last_error, and the   *)
(* attempt starts that long (not at all when it is not positive) after     *)
(* attempt k-1 ended; under EXPONENTIAL_BACKOFF the first retry waits      *)
(* base_delay.  The runs are those of execute_with_retry and of its sync   *)
(* variant                                                                 *)
C37_DelayFromFailedAttempt ==
  /\ \A k \in DOMAIN attempts :
       IF k = 1
         THEN /\ attempts[k].delay_before = 0
              /\ attempts[k].start_time = start_time
         ELSE /\ attempts[k].delay_before \in calculate_delay(k - 1, config)
              /\ attempts[k].start_time =
                   attempts[k - 1].end_time
                     + Max(0, attempts[k].delay_before)
  /\ (config.policy = "EXPONENTIAL_BACKOFF" /\ Len(attempts) >= 2) =>
       attempts[2].delay_before = config.base_delay
  /\ rpc \in {"sleep", "invoke"} =>
       IF attempt_num = 1
         THEN delay = 0 /\ rpc = "invoke"
         ELSE /\ delay \in calculate_delay(attempt_num - 1, config)
              /\ last_error = Some(op_outcomes[attempt_num - 1].error)

(* a run under LINEAR_BACKOFF whose second attempt waited base_delay and   *)
(* whose third waited twice as long                                        *)
C37_Witness ==
  /\ config.policy = "LINEAR_BACKOFF"
  /\ config.base_delay = 1
  /\ Len(attempts) = 3
  /\ attempts[1].delay_before = 0
  /\ attempts[2].delay_before = 1
  /\ attempts[3].delay_before = 2
  /\ attempts[3].start_time = attempts[2].end_time + 2

(* C39: when a call of execute_with_retry or of its sync variant has       *)
(* returned, whatever its outcome, the statistics satisfy                  *)
(* total_executions = successful_executions + failed_executions +          *)
(* aborted_executions, and total_attempts is the number of RetryAttempt    *)
(* records returned                                                        *)
C39_StatsAddUp ==
  rpc = "done" =>
    /\ retry_stats.total_executions =
         retry_stats.successful_executions + retry_stats.failed_executions
           + retry_stats.aborted_executions
    /\ retry_stats.total_attempts = Len(retry_result[1].attempts)

(* C10: with config.timeout set, no attempt starts at a moment when the    *)
(* time elapsed since the call began exceeds config.timeout                *)
C10_NoAttemptPastTimeout ==
  config.timeout # None =>
    \A i \in DOMAIN attempts :
      attempts[i].start_time - start_time <= config.timeout[1]

(* C11: a RetryExecutionResult returned by execute_with_retry or by        *)
(* execute_with_retry_sync is SUCCESS exactly when its attempt list is     *)
(* non-empty and the last attempt has success = true, and no attempt       *)
(* follows a successful one                                                *)
C11_SuccessIffLastAttemptSucceeded ==
  rpc = "done" =>
    LET r == retry_result[1]
        k == Len(r.attempts)
    IN /\ r.result = "SUCCESS" <=> (k > 0 /\ r.attempts[k].success)
       /\ \A i \in 1..(k - 1) : ~r.attempts[i].success

(* execute_with_retry_sync has returned SUCCESS on its third attempt       *)
C11_Witness ==
  /\ rpc = "done"
  /\ sync
  /\ Len(retry_result[1].attempts) = 3
  /\ retry_result[1].result = "SUCCESS"
  /\ retry_result[1].attempts[3].success

(* C12: in every returned RetryExecutionResult, whatever the outcome, the  *)
(* attempts are numbered 1, 2, ..., k in order and k <= max_attempts       *)
C12_AttemptsNumberedInOrder ==
  rpc = "done" =>
    LET r == retry_result[1]
        k == Len(r.attempts)
    IN /\ k <= config.max_attempts
       /\ \A i \in 1..k : r.attempts[i].attempt_number = i

(* a TIMEOUT result that carries two attempts                              *)
C12_Witness ==
  /\ rpc = "done"
  /\ retry_result[1].result = "TIMEOUT"
  /\ Len(retry_result[1].attempts) = 2
  /\ retry_result[1].attempts[2].attempt_number = 2

(* ------------------ calculate_delay and should_retry: claims ----------- *)
(* C13: every delay calculate_delay returns, for every policy and also for *)
(* CUSTOM with a caller-supplied function, lies in 0..max_delay            *)
C13_DelayWithinBounds ==
  0 <= delay /\ delay <= config.max_delay

(* min(max_delay, base_delay * multiplier^(attempt-1))                     *)
ExponentialDelay(attempt, cfg) ==
  Min(cfg.max_delay,
      cfg.base_delay * Pow(cfg.backoff_multiplier, attempt - 1))

(* the delays_before of the retries of a run do not decrease               *)
RetryDelaysNonDecreasing ==
  \A i, j \in 2..Len(attempts) :
    i <= j => attempts[i].delay_before <= attempts[j].delay_before

(* C14 as stated: under EXPONENTIAL_BACKOFF calculate_delay(attempt) is    *)
(* min(max_delay, base_delay * multiplier^(attempt-1)), and it does not    *)
(* decrease with attempt when multiplier >= 1                              *)
C14_ExponentialDelay ==
  config.policy = "EXPONENTIAL_BACKOFF" =>
    /\ \A n \in 1..MaxAttempts :
         calculate_delay(n, config) = {ExponentialDelay(n, config)}
    /\ (rpc \in {"sleep", "invoke"} /\ attempt_num > 1) =>
         delay = ExponentialDelay(attempt_num - 1, config)
    /\ config.backoff_multiplier >= 1 => RetryDelaysNonDecreasing

(* C14 amended: under EXPONENTIAL_BACKOFF calculate_delay(attempt) is      *)
(* max(0, min(max_delay, base_delay * multiplier^(attempt-1))), which is   *)
(* the stated value whenever multiplier >= 0, and it does not decrease     *)
(* with attempt when multiplier >= 1                                       *)
C14_ExponentialDelayClamped ==
  config.policy = "EXPONENTIAL_BACKOFF" =>
    /\ \A n \in 1..MaxAttempts :
         /\ calculate_delay(n, config) =
              {Max(0, ExponentialDelay(n, config))}
         /\ config.backoff_multiplier >= 0 =>
              calculate_delay(n, config) = {ExponentialDelay(n, config)}
         /\ (config.backoff_multiplier >= 1 /\ n > 1) =>
              \A d1 \in calculate_delay(n - 1, config),
                 d2 \in calculate_delay(n, config) : d1 <= d2
    /\ (rpc \in {"sleep", "invoke"} /\ attempt_num > 1) =>
         delay = Max(0, ExponentialDelay(attempt_num - 1, config))
    /\ config.backoff_multiplier >= 1 => RetryDelaysNonDecreasing

(* a run whose third attempt waited longer than its second, the delays     *)
(* being the stated ones                                                   *)
C14_Witness ==
  /\ config.policy = "EXPONENTIAL_BACKOFF"
  /\ config.backoff_multiplier = 2
  /\ Len(attempts) = 3
  /\ attempts[2].delay_before = 1
  /\ attempts[3].delay_before = 2

(* every exception the operation may raise                                 *)
AllErrors ==
  Errors \cup {[class |-> b, text |-> "interrupt"] : b \in BaseExceptions}

(* C15: should_retry is false whenever attempt_number >= max_attempts,     *)
(* whatever the error and the checker; below max_attempts with a checker   *)
(* supplied it is the checker's result, and false if the checker raises    *)
C15_ShouldRetry ==
  /\ \A n \in 1..(MaxAttempts + 1), e \in AllErrors, a \in Answers :
       /\ n >= config.max_attempts =>
            /\ ~should_retry(n, config, e, None)
            /\ ~should_retry(n, config, e, Some(a))
       /\ n < config.max_attempts =>
            should_retry(n, config, e, Some(a)) = (a = "true")
  /\ error_checker =>
       /\ Len(checker_answers) = Len(retry_answers)
       /\ \A i \in DOMAIN retry_answers :
            retry_answers[i] = (checker_answers[i] = "true")

(* a checker accepted a MemoryError and then raised on the next error      *)
C15_Witness ==
  /\ error_checker
  /\ checker_answers = <<"true", "raise">>
  /\ retry_answers = <<TRUE, FALSE>>
  /\ op_outcomes[1].error.class = "MemoryError"
  /\ rpc = "done"

(* C25: when the retry condition answers stop after the failure of        *)
(* attempt k < max_attempts, the call has returned at once:                *)
(* FAILED_ALL_ATTEMPTS with exactly k attempts and the error of attempt k, *)
(* the operation invoked k times, and no time spent after the end of       *)
(* attempt k                                                               *)
C25_StopEndsLoopAtOnce ==
  \A k \in DOMAIN retry_answers :
    ~retry_answers[k] =>
      /\ k = Len(retry_answers)
      /\ k < config.max_attempts
      /\ rpc = "done"
      /\ Len(op_outcomes) = k
      /\ LET r == retry_result[1]
         IN /\ r.result = "FAILED_ALL_ATTEMPTS"
            /\ Len(r.attempts) = k
            /\ r.final_error = Some(op_outcomes[k].error.text)
            /\ r.total_duration = r.attempts[k].end_time - start_time
            /\ now = r.attempts[k].end_time

(* the second of three attempts failed with an error the default policy    *)
(* does not retry                                                          *)
C25_Witness ==
  /\ rpc = "done"
  /\ ~error_checker
  /\ config.max_attempts = 3
  /\ retry_answers = <<TRUE, FALSE>>
  /\ Len(retry_result[1].attempts) = 2
  /\ retry_result[1].final_error = Some("oom")

(* C26: a call of execute_with_retry never ends with an exception leaving  *)
(* it: whatever the operation, the checkers or the delay function raise,   *)
(* the call ends with a RetryExecutionResult                               *)
C26_AlwaysReturnsResult ==
  /\ rpc # "raised"
  /\ rpc = "done" => retry_result # None

(* the error classes should_retry never retries                            *)
non_retryable_errors == {"KeyboardInterrupt", "SystemExit", "MemoryError"}

(* C27: with no error_checker, when attempt k < max_attempts fails with a  *)
(* KeyboardInterrupt, a SystemExit or a MemoryError, it is the last        *)
(* attempt and the call has returned FAILED_ALL_ATTEMPTS with exactly k    *)
(* attempts; when it fails with any other error, should_retry answers      *)
(* retry                                                                   *)
C27_FatalErrorsEndTheCall ==
  ~error_checker =>
    \A k \in DOMAIN op_outcomes :
      (~op_outcomes[k].ok /\ k < config.max_attempts) =>
        IF op_outcomes[k].error.class \in non_retryable_errors
          THEN /\ k = Len(op_outcomes)
               /\ rpc = "done"
               /\ retry_result[1].result = "FAILED_ALL_ATTEMPTS"
               /\ Len(retry_result[1].attempts) = k
          ELSE /\ k <= Len(retry_answers)
               /\ retry_answers[k]

(* C28: when execute_with_retry, called without abort_checker, has         *)
(* returned, execute_with_retry_sync given the same configuration, the     *)
(* same error_checker answers and the same operation outcomes returns the  *)
(* same RetryExecutionResult, attempt list included, and leaves the same   *)
(* statistics                                                              *)
C28_SyncSameAsAsync ==
  (rpc = "done" /\ ~abort_checker) =>
    /\ execute_with_retry_sync.result = retry_result[1]
    /\ execute_with_retry_sync.stats = retry_stats

(* three attempts with an error_checker and delays before the second and   *)
(* the third, ended by the overall timeout or by the last failure          *)
C28_Witness ==
  /\ rpc = "done"
  /\ ~abort_checker
  /\ error_checker
  /\ Len(retry_result[1].attempts) = 3
  /\ retry_result[1].attempts[2].delay_before = 1
  /\ retry_result[1].attempts[3].delay_before = 2
  /\ retry_result[1].result = "FAILED_ALL_ATTEMPTS"
  /\ execute_with_retry_sync.result = retry_result[1]

(* C29: when execute_process builds its ProcessResult, return_code is the  *)
(* exit code the engine read from the process on its normal path, present  *)
(* exactly when the process had exited by then, and absent on the          *)
(* exception path; state is COMPLETED exactly when that code is 0, and     *)
(* then is_success holds; a nonzero code gives FAILED with the code; no    *)
(* other state is returned                                                 *)
C29_ReturnCodeAndState ==
  [][\A c \in Callers :
       (pc[c] = "result" /\ pc'[c] = "finally") =>
         LET r == result'[c][1]
             observed == exc[c] = None /\ returncode[c] # None
         IN /\ r.state \in {"COMPLETED", "FAILED"}
            /\ r.return_code # None <=> observed
            /\ observed => r.return_code = returncode[c]
            /\ r.state = "COMPLETED" <=> r.return_code = Some(0)
            /\ r.state = "COMPLETED" <=> is_success(r)
            /\ (r.return_code # None /\ r.return_code # Some(0)) =>
                 r.state = "FAILED"]_vars

(* a call has returned FAILED with the nonzero exit code of its process    *)
C29_Witness ==
  \E c \in Callers :
    /\ pc[c] = "returned"
    /\ result[c] # None
    /\ result[c][1].state = "FAILED"
    /\ result[c][1].return_code = Some(1)
    /\ result[c][1].metadata_exception = None

(* ------------------------ ProcessTerminator: claims -------------------- *)
(* C16: terminate_gracefully entered for a process that has already exited *)
(* returns True and sends no signal of any stage                           *)
C16_ExitedProcessNoSignal ==
  [][\A a \in Callers :
       (/\ tpc[a] = "entry"
        /\ returncode[ttarget[a]] # None
        /\ tpc'[a] # "entry") =>
         /\ tpc'[a] = "done"
         /\ tresult'[a] = Some(TRUE)
         /\ sent'[a] = <<>>]_vars

(* a terminate_gracefully call has returned True without any signal        *)
C16_Witness ==
  \E a \in Callers :
    /\ tpc[a] = "done"
    /\ tresult[a] = Some(TRUE)
    /\ sent[a] = <<>>
    /\ returncode[ttarget[a]] # None

(* the stages of the escalation in order                                   *)
Stages == <<"terminate", "kill", "oskill">>

IsPrefix(q, r) ==
  Len(q) <= Len(r) /\ \A i \in 1..Len(q) : q[i] = r[i]

(* C17: the signals go out in the order terminate, kill, OS-level kill,    *)
(* each at most once; the kill stage and the OS-level stage are entered    *)
(* only when the wait of the stage before timed out with the process       *)
(* still running; and when the process exits during the wait that follows  *)
(* the kill, the call returns True and no OS-level kill is issued          *)
C17_StagedEscalation ==
  [][\A a \in Callers :
       /\ IsPrefix(sent'[a], Stages)
       /\ Len(sent'[a]) <= Len(sent[a]) + 1
       /\ (tpc'[a] = "kill" /\ tpc[a] # "kill") =>
            /\ tpc[a] = "term_wait"
            /\ proc[ttarget[a]] = "running"
            /\ sent[a] = <<"terminate">>
       /\ (tpc'[a] = "oskill" /\ tpc[a] # "oskill") =>
            /\ tpc[a] = "kill_wait"
            /\ proc[ttarget[a]] = "running"
            /\ sent[a] = <<"terminate", "kill">>
       /\ (/\ tpc[a] = "kill_wait"
           /\ proc[ttarget[a]] = "exited"
           /\ tpc'[a] # "kill_wait") =>
            /\ tpc'[a] = "done"
            /\ tresult'[a] = Some(TRUE)
            /\ sent'[a] = <<"terminate", "kill">>]_vars

(* the process ignored terminate and exited on kill                        *)
C17_Witness ==
  \E a \in Callers :
    /\ tpc[a] = "done"
    /\ tresult[a] = Some(TRUE)
    /\ sent[a] = <<"terminate", "kill">>
    /\ proc[ttarget[a]] = "exited"

(* C18: terminate_gracefully returns False only out of the OS-level stage, *)
(* when the final kill could not be issued; an exception in the terminate  *)
(* or the kill stage lets the escalation go on to the next stage           *)
C18_FalseOnlyFromOsKill ==
  [][\A a \in Callers :
       (tresult'[a] = Some(FALSE) /\ tresult[a] # Some(FALSE)) =>
         tpc[a] = "oskill"]_vars

(* ------------------------ ProcessMonitor: claims ----------------------- *)
Front(q) == SubSeq(q, 1, Len(q) - 1)

(* a stream loop has ended only at its while condition or at end of stream *)
EndedAtLoopHead(k) ==
  lpc[k] = "ended" => (exit_code # None \/ ~monitoring \/ streams[k] = 0)

(* C19: whether or not observers raise, every registered observer has been *)
(* called with every event emitted, up to the observers that a delivery    *)
(* in progress, or cut short by stop_monitoring, has not reached: an       *)
(* exception of one observer does not keep the event from the observers    *)
(* after it, nor later events from any observer, the failed one included;  *)
(* and the loop that emitted the event keeps running: by itself it ends    *)
(* only at its while condition or at end of stream                         *)
C19_ObserverFailureIsolated ==
  /\ \A k \in Emitters, j \in 1..Len(observers) :
       received[observers[j]][k] =
         IF lpc[k] \in {"notify", "cancelled"} /\ j >= obs_i[k]
           THEN Front(emitted[k])
           ELSE emitted[k]
  /\ \A k \in StreamLoops :
       (last_raise # None /\ last_raise[1].emitter = k) => EndedAtLoopHead(k)

(* the first observer raised on the first stdout event; the second         *)
(* observer received it, and both received a later event                   *)
C19_Witness ==
  /\ last_raise =
       Some([observer |-> observers[1], emitter |-> "stdout", n |-> 1])
  /\ lpc["stdout"] # "notify"
  /\ Len(emitted["stdout"]) >= 2
  /\ received[observers[1]]["stdout"] = emitted["stdout"]
  /\ received[observers[2]]["stdout"] = emitted["stdout"]

(* parser p has been applied to line n                                     *)
Applied(n, p) ==
  \E i \in DOMAIN parser_log :
    parser_log[i].line = n /\ parser_log[i].parser = p

(* C20: for every parser call that raised, an ERROR event for that parser  *)
(* and line has been emitted, every parser after it has been applied to    *)
(* the same line unless the loop is still working on that line or was      *)
(* cancelled by stop_monitoring while working on it, the stdout            *)
(* loop has ended only at its while condition or at end of stream, and so  *)
(* has the stderr loop; the state loop has ended only with the monitor     *)
(* stopped or the process exited                                           *)
C20_ParserFailureBecomesErrorEvent ==
  \A i \in DOMAIN parser_log :
    parser_log[i].outcome = "raise" =>
      LET n == parser_log[i].line
          p == parser_log[i].parser
      IN /\ MonitorEvent("ERROR", <<n, p>>) \in Range(emitted["stdout"])
         /\ \A q \in (p + 1)..Len(custom_parsers) :
              \/ Applied(n, q)
              \/ /\ line_no["stdout"] = n
                 /\ lpc["stdout"] \in {"notify", "parsers", "cancelled"}
                 /\ parser_i <= q
         /\ EndedAtLoopHead("stdout")
         /\ EndedAtLoopHead("stderr")
         /\ lpc["state"] = "ended" => (exit_code # None \/ ~monitoring)

(* the first parser raised on the first line, the second parser was        *)
(* applied to it, and the loop has read and reported the second line       *)
C20_Witness ==
  /\ Len(parser_log) >= 2
  /\ parser_log[1] = [line |-> 1, parser |-> 1, outcome |-> "raise"]
  /\ parser_log[2].line = 1
  /\ parser_log[2].parser = 2
  /\ MonitorEvent("STDOUT_LINE", <<2>>) \in Range(emitted["stdout"])
  /\ emitted["stderr"] # <<>>

(* the positions in what emitter k emitted that hold the event e           *)
EventsOf(k, e) == {i \in DOMAIN emitted[k] : emitted[k][i] = e}

(* every PROGRESS event comes from the stdout loop, for a line and a       *)
(* parser that returned truthy data for it, after the line's STDOUT_LINE   *)
ProgressOnlyFromStdoutParsers ==
  /\ \A k \in Emitters \ {"stdout"} :
       \A i \in DOMAIN emitted[k] : emitted[k][i].event_type # "PROGRESS"
  /\ \A i \in DOMAIN emitted["stdout"] :
       emitted["stdout"][i].event_type = "PROGRESS" =>
         LET n == emitted["stdout"][i].data[1]
             p == emitted["stdout"][i].data[2]
         IN /\ \E j \in DOMAIN parser_log :
                 parser_log[j] = [line |-> n, parser |-> p,
                                  outcome |-> "data"]
            /\ \E j \in 1..(i - 1) :
                 emitted["stdout"][j] = MonitorEvent("STDOUT_LINE", <<n>>)
  /\ \A i \in DOMAIN emitted["stderr"] :
       emitted["stderr"][i].event_type = "STDERR_LINE"

CompletedEvents(k) ==
  {i \in DOMAIN emitted[k] : emitted[k][i].event_type = "COMPLETED"}

(* C22: over the attachment at most one COMPLETED event has been emitted,  *)
(* by the state loop alone; when it has been, the process has exited and   *)
(* the event carries the return code of the process                        *)
C22_AtMostOneCompleted ==
  /\ \A k \in Emitters \ {"state"} : CompletedEvents(k) = {}
  /\ Cardinality(CompletedEvents("state")) <= 1
  /\ \A i \in CompletedEvents("state") :
       /\ exit_code # None
       /\ emitted["state"][i].data = <<exit_code[1]>>

(* the process exited with code 1 and the state loop reported it and ended *)
C22_Witness ==
  /\ exit_code = Some(1)
  /\ emitted["state"] = <<MonitorEvent("COMPLETED", <<1>>)>>
  /\ lpc["state"] = "ended"
  /\ \A o \in Observers : received[o]["state"] = emitted["state"]

(* C24: the stdout loop has ended by itself only at end of stream or with  *)
(* the monitor stopped, so that no line the process wrote is left unread   *)
(* on the stream of a monitor that was not stopped, and every line read    *)
(* has produced exactly one STDOUT_LINE event                              *)
C24_StdoutLineForEveryLine ==
  /\ lpc["stdout"] = "ended" => (streams["stdout"] = 0 \/ ~monitoring)
  /\ \A n \in 1..line_no["stdout"] :
       Cardinality(EventsOf("stdout", MonitorEvent("STDOUT_LINE", <<n>>))) = 1

(* --------------- execute_process with monitors: claims ----------------- *)
(* C23: when execute_process has returned, on its normal path, for a call  *)
(* whose process exited, every monitor passed to the call has emitted a    *)
(* COMPLETED event for that execution                                      *)
C23_CompletedBeforeReturn ==
  \A c \in Callers :
    (/\ pc[c] = "returned"
     /\ returncode[c] # None
     /\ result[c] # None
     /\ result[c][1].metadata_exception = None) =>
      \A m \in Range(monitors[c]) : completed_events[c][m] >= 1

(* -------------------- session ids and the registry: claims ------------- *)
(* the calls that have begun and not yet returned                          *)
InFlight == {c \in Callers : pc[c] \notin {"idle", "returned"}}

(* C33: two execute_process calls in flight at the same time never have    *)
(* the same session id, and every call past its registration and before    *)
(* its deregistration has a registry entry that holds its own process      *)
C33_UniqueSessionIds ==
  /\ \A c1, c2 \in InFlight : c1 # c2 => session_id[c1] # session_id[c2]
  /\ \A c \in Callers :
       pc[c] \in {"start_mon", "wait", "terminate", "drain"} =>
         /\ session_id[c] \in DOMAIN active_processes
         /\ active_processes[session_id[c]] = c

(* C38: stats.active_count is the number of entries of the registry, it is *)
(* never negative, and it is 0 whenever no execute_process call is in      *)
(* flight                                                                  *)
C38_ActiveCountIsRegistrySize ==
  /\ stats.active_count = Cardinality(DOMAIN active_processes)
  /\ stats.active_count >= 0
  /\ InFlight = {} => stats.active_count = 0

(* C35: when request.timeout is present, zero included, and has elapsed    *)
(* with the process still running, execute_process is no longer in its     *)
(* wait for the process: it has entered terminate_gracefully               *)
C35_PresentTimeoutBoundsWait ==
  \A c \in Callers :
    (timeout[c] # None /\ deadline_elapsed[c]) =>
      /\ pc[c] # "wait"
      /\ tpc[c] # "idle"

(* ----------------- start_monitoring and stop_monitoring: claims -------- *)
(* C40: once stop_monitoring has returned, and until the monitor is        *)
(* started again, no loop task created by any start_monitoring call on     *)
(* that monitor is still running or cancelled but not yet ended            *)
C40_StopEndsEveryLoopTask ==
  \A m \in Monitors :
    stopped[m] =>
      \A c \in Callers, k \in Loops : tasks[c][m][k] \in {"none", "done"}

(* ------------------------ _notify_observers: claims -------------------- *)
(* how many times observer o was called in the latest delivery of k        *)
TimesCalled(k, o) ==
  Cardinality({i \in DOMAIN delivery[k].called : delivery[k].called[i] = o})

(* C34: when _notify_observers has gone through the list, every observer   *)
(* that was in self.observers when the delivery began and was not removed  *)
(* during it has been called exactly once with the event, also when        *)
(* observers add or remove observers while they handle it                  *)
C34_DeliveredExactlyOnce ==
  \A k \in Emitters :
    (lpc[k] = "notify" /\ obs_i[k] > Len(observers)) =>
      \A o \in Range(delivery[k].begin) \ delivery[k].removed :
        TimesCalled(k, o) = 1

(* --------- terminate_process and get_active_sessions: claims ----------- *)
(* the execute_process calls between their registration and their          *)
(* deregistration                                                          *)
RegisteredCalls ==
  {c \in Callers :
     pc[c] \in {"start_mon", "wait", "terminate", "drain", "stop_mon",
                "stop_wait", "result", "finally"} /\ proc[c] # "none"}

(* C31: a terminate_process(i) call with no registry entry for i returns   *)
(* False at once and never sends a signal; with an entry it runs           *)
(* terminate_gracefully on the process registered under i, which belongs   *)
(* to a registered execution whose session id is i, sends signals to no    *)
(* other process and returns what terminate_gracefully returned; a         *)
(* get_active_sessions call returns the keys of the registry, each the     *)
(* session id of an execution registered and not yet deregistered          *)
C31_TerminateByIdAndListing ==
  [][/\ \A t \in Terminators :
          /\ (tpc[t] = "idle" /\ tpc'[t] # "idle") =>
               LET i == term_id'[t][1] IN
               /\ sent'[t] = <<>>
               /\ IF i \in DOMAIN active_processes
                    THEN /\ tpc'[t] = "entry"
                         /\ tresult'[t] = None
                         /\ ttarget'[t] = active_processes[i]
                         /\ ttarget'[t] \in RegisteredCalls
                         /\ session_id[ttarget'[t]] = i
                    ELSE /\ tpc'[t] = "done"
                         /\ tresult'[t] = Some(FALSE)
          /\ tpc[t] # "idle" =>
               /\ ttarget'[t] = ttarget[t]
               /\ term_id'[t] = term_id[t]
          /\ tpc[t] = "done" =>
               /\ sent'[t] = sent[t]
               /\ tresult'[t] = tresult[t]
     /\ sessions' # sessions =>
          /\ sessions' = Some(DOMAIN active_processes)
          /\ \A i \in sessions'[1] :
               \E c \in RegisteredCalls : session_id[c] = i
          /\ active_processes' = active_processes]_vars

(* a terminate_process call for a registered id sent terminate and kill    *)
(* to its process and returned True, and another call listed the sessions  *)
C31_Witness ==
  \E t \in Terminators :
    /\ tpc[t] = "done"
    /\ sent[t] = <<"terminate", "kill">>
    /\ tresult[t] = Some(TRUE)
    /\ term_id[t] # None
    /\ ttarget[t] \in Callers
    /\ session_id[ttarget[t]] = term_id[t][1]
    /\ sessions # None
    /\ sessions[1] # {}

(* C32: no caller of terminate_process is in the wait that follows         *)
(* terminate() or kill() while process_lock is held, so no execute_process *)
(* call stands at its registration or deregistration with the lock taken   *)
C32_LockNotHeldAcrossWait ==
  /\ \A t \in Terminators :
       tpc[t] \in {"term_wait", "kill_wait"} => ~process_lock
  /\ \A c \in Callers : pc[c] \in {"register", "finally"} => ~process_lock

====
